---- MODULE Spec2Model ----
(***************************************************************************)
(* Model of the minion interaction loop: the History store                 *)
(* (interaction_loop/history.rs) and the action state machine              *)
(* (interaction_loop/run.rs), followed by the handling of its outcome in   *)
(* main.rs.  The code-fence stripper (actions/markdown.rs), the retry      *)
(* driver (llm.rs), find_devcontainer_json (devcontainer json.rs) and      *)
(* workspace_folder_name (main.rs) each have a specification of their own. *)
(*                                                                         *)
(* A text (Rust String) is a sequence of string fragments; format! is the  *)
(* concatenation of its fragments, so two texts are equal iff they are     *)
(* built from the same fragments.  A selection token such as "bash" is a   *)
(* one-fragment text; "bash" followed by a newline is <<"bash", "\n">>.    *)
(***************************************************************************)
EXTENDS Integers, Sequences, FiniteSets, TLC

VARIABLES
    pc,             \* position of the process (run / single_action / History driver)
    history,        \* History { prefix, actions }
    p,              \* the in-progress Prompt items of single_action
    action_number,  \* single_action: history.actions.len() at its start
    start_idx,      \* single_action: p.items.len() right after compressed_prompt()
    filepath,       \* action_read_file / action_edit_file: the model-given path
    description,    \* action_end_task: the failure description
    resources,      \* Resources.open_files
    outcome,        \* value returned by run (NoOutcome while it runs)
    completion,     \* the response of the most recent LLM call
    last_prompt,    \* the prompt items of the most recent LLM call
    last_model,     \* the model of the most recent LLM call
    llm_calls,      \* number of LLM calls issued so far
    container_log,  \* the container operations performed so far, in order
    panic,          \* "none" or the kind of the panic that aborted the process
    llm_script,     \* the behaviour of the LLM driving this run
    result,         \* History driver: the last History operation and its value
    main_pc,        \* position of main (main.rs) around its call of run
    main_log,       \* the git and agent-API operations main completed, in order
    md,             \* markdown driver: the content and the stripper's locals
    retry,          \* retry driver: the state of one retry_exp call
    dev,            \* devcontainer driver: the directory and the path found
    ws,             \* workspace driver: the repository URL path and the folder name
    req,            \* render driver: the prompt, the model and the request built
    rd,             \* read driver: the download stream and the state of one read_file
    ct              \* the Docker container of the run and main's handle on it

vars == <<pc, history, p, action_number, start_idx, filepath, description,
          resources, outcome, completion, last_prompt, last_model, llm_calls,
          container_log, panic, llm_script, result, main_pc, main_log, md, retry, dev,
          ws, req, rd, ct>>

\* the variables of the drivers of the stand-alone functions
driver_vars == <<md, retry, dev, ws, req, rd>>

\* a step of run leaves main where it is: main is awaiting run
RunFrame == UNCHANGED <<main_pc, main_log, driver_vars, ct>>

\* no container exists and main holds no handle
NoContainer == [docker |-> "absent", handle |-> "none"]

\* the drivers of the stand-alone functions before their first step
IdleMd == [content |-> <<>>, called |-> FALSE, start_idx |-> 0, end_idx |-> 0, out |-> <<>>]

NoAnswer == [kind |-> "None", code |-> "none"]

IdleRetry == [pc |-> "idle", elapsed |-> 0, current_interval |-> 0, wait |-> 0,
              answers |-> <<>>, outcome |-> NoAnswer]

IdleDev == [files |-> {}, dirs |-> {}, called |-> FALSE, found |-> <<>>]

IdleWs == [path |-> <<>>, called |-> FALSE, name |-> <<>>]

IdleReq == [items |-> <<>>, model |-> "none", called |-> FALSE, messages |-> <<>>,
            temperature |-> "none"]

IdleRd == [pc |-> "idle", stream |-> <<>>, pos |-> 0, entries_ok |-> TRUE, bytes |-> <<>>,
           result |-> [kind |-> "none", text |-> <<>>]]

DriversIdle ==
    /\ md = IdleMd /\ retry = IdleRetry /\ dev = IdleDev /\ ws = IdleWs /\ req = IdleReq
    /\ rd = IdleRd

(***************************************************************************)
(* Bounds of the model.                                                    *)
(***************************************************************************)
\* recorded actions of a run whose LLM answers freely
MaxActions == 2
\* recorded actions of a run whose LLM is scripted to always choose bash
MaxBashActions == 7
\* appended actions of the History driver
MaxHistActions == 7
\* pieces of the content given to the code-fence stripper
MaxPieces == 6
\* longest time one awaited operation of the retry driver takes, in ticks
MaxOpTicks == 240
\* resolution of the clock of the retry driver: ticks per second
TicksPerSec == 4
\* sub-folder names that may occur in the .devcontainer directory
MaxSubfolders == 3
\* pieces of the path of the repository URL after its leading slash
MaxUrlPieces == 5
\* items of the prompt given to the render driver
MaxPromptItems == 3

(***************************************************************************)
(* llm.rs: PromptItem                                                      *)
(***************************************************************************)
System(text) == [role |-> "System", text |-> text]

Assistant(text) == [role |-> "Assistant", text |-> text]

\* User { content }: From<String> for Content wraps the text in one Text item
User(text) == [role |-> "User", text |-> text]

\* usize rendered by format!("{}", n)
FmtNum(n) == <<ToString(n)>>

(***************************************************************************)
(* history.rs                                                              *)
(***************************************************************************)
MAX_ACTIONS_TO_KEEP == 5

saturating_sub(a, b) == IF a >= b THEN a - b ELSE 0

History_new(prefix) == [prefix |-> prefix, actions |-> <<>>]

\* the summary item leaves out the summary text separator and number
SummaryItem_no_number(action) ==
    System(<<"Summary for action ">> \o <<": ">> \o action.summary)

SummaryItem(action) ==
    System(<<"Summary for action ">> \o FmtNum(action.number) \o <<": ">> \o action.summary)

RECURSIVE ExtendAll(_, _, _)
\* items.extend(action.messages.clone()) for the actions from index from on
ExtendAll(items, actions, from) ==
    IF from > Len(actions) THEN items
    ELSE ExtendAll(items \o actions[from].messages, actions, from + 1)

\* once the limit is passed, every action but the newest is summarized
compressed_prompt_all_at_once(h) ==
    LET total_actions == Len(h.actions)
        skip_count == IF total_actions > MAX_ACTIONS_TO_KEEP THEN total_actions - 1 ELSE 0
        summaries == [i \in 1..skip_count |-> SummaryItem(h.actions[i])]
    IN  ExtendAll(h.prefix \o summaries, h.actions, skip_count + 1)

\* compressed_prompt keeps the messages of every action after the summaries
compressed_prompt_keep_all(h) ==
    LET total_actions == Len(h.actions)
        skip_count == saturating_sub(total_actions, MAX_ACTIONS_TO_KEEP)
        summaries == [i \in 1..skip_count |-> SummaryItem(h.actions[i])]
    IN  ExtendAll(h.prefix \o summaries, h.actions, 1)

\* compressed_prompt summarizes every action but the most recent one
compressed_prompt_keep_one(h) ==
    LET total_actions == Len(h.actions)
        skip_count == saturating_sub(total_actions, 1)
        summaries == [i \in 1..skip_count |-> SummaryItem(h.actions[i])]
    IN  ExtendAll(h.prefix \o summaries, h.actions, skip_count + 1)

compressed_prompt(h) ==
    LET total_actions == Len(h.actions)
        skip_count == saturating_sub(total_actions, MAX_ACTIONS_TO_KEEP)
        summaries == [i \in 1..skip_count |-> SummaryItem(h.actions[i])]
    IN  ExtendAll(h.prefix \o summaries, h.actions, skip_count + 1)

\* append numbers the new action from one
append_one_based(h, messages, summary) ==
    LET number == Len(h.actions) + 1
    IN  [h EXCEPT !.actions =
            Append(@, [number |-> number, messages |-> messages, summary |-> summary])]

append(h, messages, summary) ==
    LET number == Len(h.actions)
    IN  [h EXCEPT !.actions =
            Append(@, [number |-> number, messages |-> messages, summary |-> summary])]

(***************************************************************************)
(* actions/markdown.rs: strip_wrapping_markdown_code_fences.  A text is    *)
(* scanned symbol by symbol: the backquote BT, "\n", "\r", " " and "\t"    *)
(* are the characters the function looks at, every other fragment is       *)
(* ordinary text.                                                          *)
(***************************************************************************)
\* the backquote character
BT == "<bq>"

IsWhitespace(ch) == ch \in {" ", "\n", "\t", "\r"}

SetMin(S) == CHOOSE x \in S : \A y \in S : x <= y

SetMax(S) == CHOOSE x \in S : \A y \in S : x >= y

Max2(a, b) == IF a >= b THEN a ELSE b

Min2(a, b) == IF a <= b THEN a ELSE b

\* str::trim
trim(s) ==
    LET keep == {i \in 1..Len(s) : ~IsWhitespace(s[i])}
    IN  IF keep = {} THEN <<>> ELSE SubSeq(s, SetMin(keep), SetMax(keep))

\* positions (1-based) where a line of s starts: (?m)^
LineStarts(s) == {i \in 1..Len(s) : i = 1 \/ s[i - 1] = "\n"}

\* the fence regex (three backquotes, then the rest of the line) matches the line that starts at position i
FenceAt(s, i) == i + 2 <= Len(s) /\ s[i] = BT /\ s[i + 1] = BT /\ s[i + 2] = BT

\* CODE_FENCE_REGEX.find_iter(s).count()
CodeFenceCount(s) == Cardinality({i \in LineStarts(s) : FenceAt(s, i)})

\* str::lines: the line starting at position i, without its "\n" or "\r\n"
LineFrom(s, i) ==
    LET nls == {j \in i..Len(s) : s[j] = "\n"}
        stop == IF nls = {} THEN Len(s) ELSE SetMin(nls) - 1
        crlf == nls # {} /\ stop >= i /\ s[stop] = "\r"
    IN  SubSeq(s, i, IF crlf THEN stop - 1 ELSE stop)

\* trimmed.lines().next(); only used on a non-empty text
FirstLine(s) == LineFrom(s, 1)

\* trimmed.lines().last(); only used on a non-empty text
LastLine(s) == LineFrom(s, SetMax(LineStarts(s)))

\* the second condition under which the last code fence is stripped
StripsLastFence_always(code_fence_count, start_idx0) == TRUE

StripsLastFence(code_fence_count, start_idx0) ==
    code_fence_count % 2 = 1 \/ start_idx0 # 0

\* start_idx.min(trimmed.len())
ClampStart(start_idx0, len) == IF start_idx0 < len THEN start_idx0 ELSE len

\* end_idx.max(start_idx)
ClampEnd(end_idx0, start_idx0) == IF end_idx0 > start_idx0 THEN end_idx0 ELSE start_idx0

\* the locals of strip_wrapping_markdown_code_fences at its final if
StripLocals(content) ==
    LET trimmed == trim(content)
        code_fence_count == CodeFenceCount(trimmed)
        start0 == IF Len(trimmed) > 0 /\ FenceAt(FirstLine(trimmed), 1)
                  THEN Len(FirstLine(trimmed)) + 1 ELSE 0
        end0 == IF StripsLastFence(code_fence_count, start0)
                   /\ Len(trimmed) > 0 /\ FenceAt(LastLine(trimmed), 1)
                THEN Len(trimmed) - Len(LastLine(trimmed)) ELSE Len(trimmed)
        start_i == ClampStart(start0, Len(trimmed))
    IN  [trimmed |-> trimmed, code_fence_count |-> code_fence_count,
         start_idx |-> start_i, end_idx |-> ClampEnd(end0, start_i)]

strip_wrapping_markdown_code_fences_trims(content) ==
    LET l == StripLocals(content)
        has_been_stripped == l.start_idx # 0 \/ l.end_idx # Len(l.trimmed)
    IN  IF l.code_fence_count = 0 THEN l.trimmed
        ELSE IF has_been_stripped THEN SubSeq(l.trimmed, l.start_idx + 1, l.end_idx)
        ELSE content

strip_wrapping_markdown_code_fences(content) ==
    LET l == StripLocals(content)
        has_been_stripped == l.start_idx # 0 \/ l.end_idx # Len(l.trimmed)
    IN  IF l.code_fence_count = 0 THEN content
        ELSE IF has_been_stripped THEN SubSeq(l.trimmed, l.start_idx + 1, l.end_idx)
        ELSE content

(***************************************************************************)
(* run.rs: constants                                                       *)
(***************************************************************************)
SMART_MODEL == "o1-mini"

BASIC_MODEL == "gpt-4o-mini"

INTRO_1 == <<"INTRO_1">>

INTRO_2 == <<"INTRO_2">>

DISCUSS_FIRST == <<"DISCUSS_FIRST">>

DISCUSS_BASH == <<"DISCUSS_BASH">>

DISCUSS_READ_FILE == <<"DISCUSS_READ_FILE">>

DISCUSS_EDIT_FILE == <<"DISCUSS_EDIT_FILE">>

DISCUSS_ACTION == <<"DISCUSS_ACTION">>

SELECT_ACTION == <<"SELECT_ACTION">>

ACTION_BASH == <<"ACTION_BASH">>

ACTION_EDIT_FILEPATH == <<"ACTION_EDIT_FILEPATH">>

ACTION_EDIT_DISCUSS == <<"ACTION_EDIT_DISCUSS">>

ACTION_EDIT_REPLACE == <<"ACTION_EDIT_REPLACE">>

ACTION_EDIT_CREATE == <<"ACTION_EDIT_CREATE">>

ACTION_EDITED == <<"ACTION_EDITED">>

ACTION_READ_FILEPATH == <<"ACTION_READ_FILEPATH">>

ACTION_END_TASK_DISCUSS == <<"ACTION_END_TASK_DISCUSS">>

ACTION_END_TASK_SELECT == <<"ACTION_END_TASK_SELECT">>

ACTION_COMPLETE_TASK_DESCRIPTION == <<"ACTION_COMPLETE_TASK_DESCRIPTION">>

ACTION_FAIL_TASK_DESCRIPTION == <<"ACTION_FAIL_TASK_DESCRIPTION">>

ACTION_FAIL_TASK_REASON_DISCUSS == <<"ACTION_FAIL_TASK_REASON_DISCUSS">>

ACTION_FAIL_TASK_REASON_SELECT == <<"ACTION_FAIL_TASK_REASON_SELECT">>

\* the prefix with both introductions ahead of the task description
RunPrefix_intros_first(task_description) ==
    <<System(INTRO_1), System(INTRO_2), User(task_description)>>

\* the prefix built by run from the task description
RunPrefix(task_description) ==
    <<System(INTRO_1), User(task_description), System(INTRO_2)>>

\* TaskOutcome; NoOutcome while run has not returned
NoOutcome == [kind |-> "None", reason |-> "None", description |-> <<>>]

Complete(d) == [kind |-> "Complete", reason |-> "None", description |-> d]

Failure(r, d) == [kind |-> "Failure", reason |-> r, description |-> d]

\* select_action trims the completion before matching it
ParseAction_trimmed(c) ==
    LET t == trim(c)
    IN  IF t = <<"bash">> THEN "Bash"
        ELSE IF t = <<"read-file">> THEN "ReadFile"
        ELSE IF t = <<"edit-file">> THEN "EditFile"
        ELSE IF t = <<"end-task">> THEN "EndTask"
        ELSE "panic"

\* select_action: match completion.as_str()
ParseAction(c) ==
    IF c = <<"bash">> THEN "Bash"
    ELSE IF c = <<"read-file">> THEN "ReadFile"
    ELSE IF c = <<"edit-file">> THEN "EditFile"
    ELSE IF c = <<"end-task">> THEN "EndTask"
    ELSE "panic"

\* action_end_task: match completion.as_str()
ParseEnding(c) ==
    IF c = <<"complete">> THEN "complete"
    ELSE IF c = <<"failure">> THEN "failure"
    ELSE "panic"

\* an unmatched reason is classified as problem-solving
ParseReason_default_problem_solving(c) ==
    IF c = <<"technical-issues">> THEN "TechnicalIssues"
    ELSE IF c = <<"task-issues">> THEN "TaskIssues"
    ELSE "ProblemSolving"

\* action_end_task: match reason_str.as_str(); "None" is Option::None
ParseReason(c) ==
    IF c = <<"technical-issues">> THEN "TechnicalIssues"
    ELSE IF c = <<"task-issues">> THEN "TaskIssues"
    ELSE IF c = <<"problem-solving">> THEN "ProblemSolving"
    ELSE "None"

\* action_bash: the message built from the Output of the script
BashOutputMsg_no_exit_status(out) ==
    <<"Stdout: ", "\n", BT, BT, BT, "\n">> \o out.stdout
        \o <<"\n", BT, BT, BT, "\n", "Stderr: ", "\n", BT, BT, BT, "\n">> \o out.stderr
        \o <<"\n", BT, BT, BT, "\n">>

BashOutputMsg(out) ==
    <<"Stdout: ", "\n", BT, BT, BT, "\n">> \o out.stdout
        \o <<"\n", BT, BT, BT, "\n", "Stderr: ", "\n", BT, BT, BT, "\n">> \o out.stderr
        \o <<"\n", BT, BT, BT, "\n", "Exit status: ">> \o FmtNum(out.exit_code) \o <<"\n">>

ReadErrorMsg(err) == <<"An error occured while reading the file: ">> \o err

ContentOfMsg(path) == <<"The content of ", BT>> \o path \o <<BT, " is:">>

BeginMarker(n) == <<"BEGIN ACTION ">> \o FmtNum(n)

EndMarker(n) == <<"END ACTION ">> \o FmtNum(n)

SummarizeMsg(n) ==
    <<"Summarize what you have done in action ">> \o FmtNum(n) \o <<".">>

(***************************************************************************)
(* The environment: the responses of the LLM and of the container.         *)
(***************************************************************************)
TaskDescriptions == {<<"task">>}

\* TaskStatus of the fetched task
TaskStatuses == {"Running", "Complete"}

\* the answer of the LLM to a discussion or planning request
DiscussResponses == {<<"plan">>}

ActionTokens == {<<"bash">>, <<"read-file">>, <<"edit-file">>, <<"end-task">>}

\* off-vocabulary answers: trailing newline, other case, prose
BadActionTokens == {<<"bash", "\n">>, <<"Bash">>}

\* the answers the LLM may give to SELECT_ACTION in the current state
SelectResponses ==
    IF llm_script = "bash"
    THEN IF action_number < MaxBashActions THEN {<<"bash">>} ELSE {<<"end-task">>}
    ELSE IF action_number < MaxActions THEN ActionTokens \cup BadActionTokens
         ELSE {<<"end-task">>} \cup BadActionTokens

CodeResponses ==
    IF llm_script = "bash" THEN {<<"echo hi">>}
    ELSE {<<"echo hi">>, <<BT, BT, BT, "bash", "\n", "ls", "\n", BT, BT, BT>>}

FilePaths == {<<"README.md">>, <<"new.txt">>}

ContentResponses == {<<"hello", "\n">>, <<BT, BT, BT, "\n", "hello", "\n", BT, BT, BT>>}

Summaries == {<<"did it">>}

EndingResponses == {<<"complete">>, <<"failure">>, <<"complete", ".">>, <<"Failure">>}

DescriptionResponses == {<<"done">>, <<"stuck">>}

ReasonDiscussResponses == {<<"category">>}

ReasonResponses ==
    {<<"technical-issues">>, <<"task-issues">>, <<"problem-solving">>,
     <<"unknown">>, <<"task-issues", "\n">>}

\* Output of a script that ran
ScriptOutputs ==
    IF llm_script = "bash"
    THEN {[exit_code |-> 0, stdout |-> <<"hi", "\n">>, stderr |-> <<>>]}
    ELSE {[exit_code |-> 0, stdout |-> <<"hi", "\n">>, stderr |-> <<>>],
          [exit_code |-> 1, stdout |-> <<>>, stderr |-> <<"not found">>]}

\* run_script returns an Output or panics (expect / panic! on a transport failure)
RunScriptResults ==
    {[kind |-> "Ok", out |-> o] : o \in ScriptOutputs}
        \cup {[kind |-> "Panic", out |-> [exit_code |-> 0, stdout |-> <<>>, stderr |-> <<>>]]}

\* Result<String, ReadFileError> of Container::read_file
ReadFileResults ==
    {[kind |-> "Ok", text |-> <<"X">>],
     [kind |-> "NotFound", text |-> <<>>],
     [kind |-> "Other", text |-> <<"io error">>]}

\* Result<(), String> of Container::write_file
WriteFileResults == {"Ok", "Err"}

\* resources.rs Resources::add_file: open_files.insert(filename)
add_file_keeps_latest(open_files, filename) == {filename}

add_file(open_files, filename) == open_files \cup {filename}

\* one container operation, as recorded in container_log
ContainerOp(op, path, content, res) ==
    [action |-> action_number, op |-> op, path |-> path, content |-> content,
     res |-> res]

(***************************************************************************)
(* run.rs: the interaction loop.  pc = "loop" is the head of the loop of   *)
(* run; every other position of single_action is an LLM call that has been *)
(* issued and whose response is awaited.                                   *)
(***************************************************************************)
\* a client that sends only the newest item of the prompt
LLMCall_last_item_only(model, prompt) ==
    /\ last_model' = model
    /\ last_prompt' = <<prompt[Len(prompt)]>>
    /\ llm_calls' = llm_calls + 1

\* llm_client.prompt(model, prompt) is issued
LLMCall(model, prompt) ==
    /\ last_model' = model
    /\ last_prompt' = prompt
    /\ llm_calls' = llm_calls + 1

AwaitingLLM ==
    {"discuss_first", "discuss_action", "select_action", "bash_code", "read_filepath",
     "edit_filepath", "edit_create", "edit_discuss", "edit_replace", "followup",
     "summarize", "end_discuss", "end_select", "complete_description",
     "fail_description", "fail_reason_discuss", "fail_reason_select"}

\* main before Container::start: the task is fetched, no container exists;
\* history already holds the prefix run builds from the task description
Init ==
    /\ llm_script \in {"free", "bash"}
    /\ pc = "main"
    /\ panic = "none"
    /\ \E d \in TaskDescriptions : history = History_new(RunPrefix(d))
    /\ p = <<>>
    /\ action_number = 0
    /\ start_idx = 0
    /\ filepath = <<>>
    /\ description = <<>>
    /\ resources = {}
    /\ outcome = NoOutcome
    /\ completion = <<>>
    /\ last_prompt = <<>>
    /\ last_model = "none"
    /\ llm_calls = 0
    /\ container_log = <<>>
    /\ result = [op |-> "none", out |-> <<>>]
    /\ main_pc = "start"
    /\ main_log = <<>>
    /\ ct = NoContainer
    /\ DriversIdle

\* every action opens with the planning turn
BeginAction_always_plans ==
    /\ pc = "loop"
    /\ LET cp == compressed_prompt(history)
           n == Len(history.actions)
           p1 == Append(cp, System(BeginMarker(n)))
       IN  /\ action_number' = n
           /\ start_idx' = Len(cp)
           /\ p' = Append(p1, System(DISCUSS_FIRST))
           /\ LLMCall(SMART_MODEL, p')
           /\ pc' = "discuss_first"
    /\ UNCHANGED <<history, filepath, description, resources, outcome, completion,
                   container_log, panic, llm_script, result>>
    /\ RunFrame

\* single_action up to its first LLM call (DISCUSS_FIRST or DISCUSS_ACTION)
BeginAction ==
    /\ pc = "loop"
    /\ LET cp == compressed_prompt(history)
           n == Len(history.actions)
           p1 == Append(cp, System(BeginMarker(n)))
       IN  /\ action_number' = n
           /\ start_idx' = Len(cp)
           /\ IF n = 0
              THEN /\ p' = Append(p1, System(DISCUSS_FIRST))
                   /\ LLMCall(SMART_MODEL, p')
                   /\ pc' = "discuss_first"
              ELSE /\ p' = Append(p1, System(DISCUSS_ACTION))
                   /\ LLMCall(BASIC_MODEL, p')
                   /\ pc' = "discuss_action"
    /\ UNCHANGED <<history, filepath, description, resources, outcome, completion,
                   container_log, panic, llm_script, result>>
    /\ RunFrame

\* the first-action planning turn, then select_action up to DISCUSS_ACTION
RecvDiscussFirst ==
    /\ pc = "discuss_first"
    /\ \E c \in DiscussResponses :
          /\ completion' = c
          /\ p' = p \o <<Assistant(c), System(DISCUSS_ACTION)>>
    /\ LLMCall(BASIC_MODEL, p')
    /\ pc' = "discuss_action"
    /\ UNCHANGED <<history, action_number, start_idx, filepath, description, resources,
                   outcome, container_log, panic, llm_script, result>>
    /\ RunFrame

\* select_action: the discussion is recorded, SELECT_ACTION is asked
RecvDiscussAction ==
    /\ pc = "discuss_action"
    /\ \E c \in DiscussResponses :
          /\ completion' = c
          /\ p' = p \o <<Assistant(c), System(SELECT_ACTION)>>
    /\ LLMCall(BASIC_MODEL, p')
    /\ pc' = "select_action"
    /\ UNCHANGED <<history, action_number, start_idx, filepath, description, resources,
                   outcome, container_log, panic, llm_script, result>>
    /\ RunFrame

\* select_action: the token is matched; single_action dispatches on it
RecvSelectAction ==
    /\ pc = "select_action"
    /\ \E c \in SelectResponses :
          /\ completion' = c
          /\ LET action == ParseAction(c)
             IN  IF action = "panic"
                 THEN /\ pc' = "aborted"
                      /\ panic' = "unexpected_action"
                      /\ UNCHANGED <<p, last_prompt, last_model, llm_calls>>
                 ELSE /\ panic' = panic
                      /\ p' = Append(p, System(
                            CASE action = "Bash" -> ACTION_BASH
                              [] action = "ReadFile" -> ACTION_READ_FILEPATH
                              [] action = "EditFile" -> ACTION_EDIT_FILEPATH
                              [] action = "EndTask" -> ACTION_END_TASK_DISCUSS))
                      /\ LLMCall(IF action \in {"Bash", "EndTask"}
                                 THEN SMART_MODEL ELSE BASIC_MODEL, p')
                      /\ pc' = (CASE action = "Bash" -> "bash_code"
                                  [] action = "ReadFile" -> "read_filepath"
                                  [] action = "EditFile" -> "edit_filepath"
                                  [] action = "EndTask" -> "end_discuss")
    /\ UNCHANGED <<history, action_number, start_idx, filepath, description, resources,
                   outcome, container_log, llm_script, result>>
    /\ RunFrame

\* action_bash: the script is run; then DISCUSS_BASH and the follow-up call
RecvBashCode ==
    /\ pc = "bash_code"
    /\ \E c \in CodeResponses, r \in RunScriptResults :
          LET code == strip_wrapping_markdown_code_fences(c)
              p1 == Append(p, Assistant(c))
          IN  /\ completion' = c
              /\ container_log' = Append(container_log, ContainerOp("run_script", <<>>, code, r.kind))
              /\ IF r.kind = "Panic"
                 THEN /\ p' = p1
                      /\ pc' = "aborted"
                      /\ panic' = "container"
                      /\ UNCHANGED <<last_prompt, last_model, llm_calls>>
                 ELSE /\ p' = p1 \o <<System(BashOutputMsg(r.out)), System(DISCUSS_BASH)>>
                      /\ LLMCall(SMART_MODEL, p')
                      /\ pc' = "followup"
                      /\ panic' = panic
    /\ UNCHANGED <<history, action_number, start_idx, filepath, description, resources,
                   outcome, llm_script, result>>
    /\ RunFrame

\* action_read_file returns on NotFound without telling the model
ReadFileItems_silent_not_found(path, r) ==
    CASE r.kind = "Ok" -> <<System(ContentOfMsg(path)), System(r.text)>>
      [] r.kind = "NotFound" -> <<>>
      [] r.kind = "Other" -> <<System(ReadErrorMsg(r.text))>>

\* action_read_file: the items pushed for the result r of read_file(path)
ReadFileItems(path, r) ==
    CASE r.kind = "Ok" -> <<System(ContentOfMsg(path)), System(r.text)>>
      [] r.kind = "NotFound" -> <<System(<<"The file does not exist.">>)>>
      [] r.kind = "Other" -> <<System(ReadErrorMsg(r.text))>>

\* action_read_file after the path is given; then DISCUSS_READ_FILE and the follow-up call
RecvReadFilepath ==
    /\ pc = "read_filepath"
    /\ \E c \in FilePaths, r \in ReadFileResults :
          LET p1 == Append(p, Assistant(c))
              p2 == p1 \o ReadFileItems(c, r)
          IN  /\ completion' = c
              /\ filepath' = c
              /\ container_log' = Append(container_log, ContainerOp("read_file", c, <<>>, r.kind))
              /\ resources' = (IF r.kind = "Ok" THEN add_file(resources, c) ELSE resources)
              /\ p' = Append(p2, System(DISCUSS_READ_FILE))
    /\ LLMCall(SMART_MODEL, p')
    /\ pc' = "followup"
    /\ UNCHANGED <<history, action_number, start_idx, description, outcome, panic,
                   llm_script, result>>
    /\ RunFrame

\* action_edit_file after the path is given, up to its next LLM call
RecvEditFilepath ==
    /\ pc = "edit_filepath"
    /\ \E c \in FilePaths, r \in ReadFileResults :
          LET p1 == Append(p, Assistant(c))
          IN  /\ completion' = c
              /\ filepath' = c
              /\ container_log' = Append(container_log, ContainerOp("read_file", c, <<>>, r.kind))
              /\ CASE r.kind = "Ok" ->
                        /\ resources' = add_file(resources, c)
                        /\ p' = p1 \o <<System(ContentOfMsg(c)), System(r.text),
                                        System(ACTION_EDIT_DISCUSS)>>
                        /\ pc' = "edit_discuss"
                   [] r.kind = "NotFound" ->
                        /\ resources' = resources
                        /\ p' = p1 \o <<System(<<"The file does not exist. It will be created.">>),
                                        System(ACTION_EDIT_CREATE)>>
                        /\ pc' = "edit_create"
                   [] r.kind = "Other" ->
                        /\ resources' = resources
                        /\ p' = p1 \o <<System(ReadErrorMsg(r.text)), System(DISCUSS_EDIT_FILE)>>
                        /\ pc' = "followup"
    /\ LLMCall(SMART_MODEL, p')
    /\ UNCHANGED <<history, action_number, start_idx, description, outcome, panic,
                   llm_script, result>>
    /\ RunFrame

\* files.rs write_file, called with the model response: strip, upload, unwrap
\* (the tail shared by the create and the replace branch of action_edit_file)
WriteAndDiscuss_raw(c, w) ==
    LET p1 == Append(p, Assistant(c))
    IN  /\ completion' = c
        /\ container_log' = Append(container_log,
              ContainerOp("write_file", filepath, c, w))
        /\ IF w = "Err"
           THEN /\ p' = p1
                /\ pc' = "aborted"
                /\ panic' = "container"
                /\ UNCHANGED <<last_prompt, last_model, llm_calls>>
           ELSE /\ p' = p1 \o <<System(ACTION_EDITED), System(DISCUSS_EDIT_FILE)>>
                /\ LLMCall(SMART_MODEL, p')
                /\ pc' = "followup"
                /\ panic' = panic

WriteAndDiscuss(c, w) ==
    LET p1 == Append(p, Assistant(c))
    IN  /\ completion' = c
        /\ container_log' = Append(container_log,
              ContainerOp("write_file", filepath, strip_wrapping_markdown_code_fences(c), w))
        /\ IF w = "Err"
           THEN /\ p' = p1
                /\ pc' = "aborted"
                /\ panic' = "container"
                /\ UNCHANGED <<last_prompt, last_model, llm_calls>>
           ELSE /\ p' = p1 \o <<System(ACTION_EDITED), System(DISCUSS_EDIT_FILE)>>
                /\ LLMCall(SMART_MODEL, p')
                /\ pc' = "followup"
                /\ panic' = panic

\* action_edit_file, the file did not exist: the new contents are written
RecvEditCreate_forgets_resource ==
    /\ pc = "edit_create"
    /\ \E c \in ContentResponses, w \in WriteFileResults : WriteAndDiscuss(c, w)
    /\ UNCHANGED <<history, action_number, start_idx, filepath, description, outcome,
                   llm_script, result, resources>>
    /\ RunFrame

RecvEditCreate ==
    /\ pc = "edit_create"
    /\ \E c \in ContentResponses, w \in WriteFileResults : WriteAndDiscuss(c, w)
    /\ resources' = add_file(resources, filepath)
    /\ UNCHANGED <<history, action_number, start_idx, filepath, description, outcome,
                   llm_script, result>>
    /\ RunFrame

\* action_edit_file, the file exists: the edit discussion is recorded
RecvEditDiscuss ==
    /\ pc = "edit_discuss"
    /\ \E c \in DiscussResponses :
          /\ completion' = c
          /\ p' = p \o <<Assistant(c), System(ACTION_EDIT_REPLACE)>>
    /\ LLMCall(SMART_MODEL, p')
    /\ pc' = "edit_replace"
    /\ UNCHANGED <<history, action_number, start_idx, filepath, description, resources,
                   outcome, container_log, panic, llm_script, result>>
    /\ RunFrame

\* action_edit_file, the file exists: the replacement is written
RecvEditReplace ==
    /\ pc = "edit_replace"
    /\ \E c \in ContentResponses, w \in WriteFileResults : WriteAndDiscuss(c, w)
    /\ UNCHANGED <<history, action_number, start_idx, filepath, description, resources,
                   outcome, llm_script, result>>
    /\ RunFrame

\* single_action: the follow-up discussion, END ACTION, and the summarize call
RecvFollowup ==
    /\ pc = "followup"
    /\ \E c \in DiscussResponses :
          /\ completion' = c
          /\ p' = p \o <<Assistant(c), System(EndMarker(action_number))>>
    /\ LLMCall(BASIC_MODEL, Append(p', System(SummarizeMsg(action_number))))
    /\ pc' = "summarize"
    /\ UNCHANGED <<history, action_number, start_idx, filepath, description, resources,
                   outcome, container_log, panic, llm_script, result>>
    /\ RunFrame

\* run gives up after a fixed number of recorded actions
RunAfter_action_budget(action_result) ==
    IF action_result = "Continue" /\ Len(history.actions) < 3 THEN "loop" ELSE "done"

\* run keeps looping whatever single_action returned
RunAfter_always_continue(action_result) == "loop"

\* the value run does with an ActionResult: Continue loops, EndTask breaks
RunAfter(action_result) == IF action_result = "Continue" THEN "loop" ELSE "done"

\* the whole working prompt is recorded as the action's messages
RecvSummary_whole_prompt ==
    /\ pc = "summarize"
    /\ \E c \in Summaries :
          /\ completion' = c
          /\ history' = append(history, p, c)
    /\ pc' = RunAfter("Continue")
    /\ UNCHANGED <<p, action_number, start_idx, filepath, description, resources, outcome,
                   last_prompt, last_model, llm_calls, container_log, panic, llm_script,
                   result>>
    /\ RunFrame

\* single_action: the summary arrives, history.append, return Continue
RecvSummary ==
    /\ pc = "summarize"
    /\ \E c \in Summaries :
          /\ completion' = c
          /\ history' = append(history, SubSeq(p, start_idx + 1, Len(p)), c)
    /\ pc' = RunAfter("Continue")
    /\ UNCHANGED <<p, action_number, start_idx, filepath, description, resources, outcome,
                   last_prompt, last_model, llm_calls, container_log, panic, llm_script,
                   result>>
    /\ RunFrame

\* action_end_task: the discussion is recorded, ACTION_END_TASK_SELECT is asked
RecvEndDiscuss ==
    /\ pc = "end_discuss"
    /\ \E c \in DiscussResponses :
          /\ completion' = c
          /\ p' = p \o <<Assistant(c), System(ACTION_END_TASK_SELECT)>>
    /\ LLMCall(BASIC_MODEL, p')
    /\ pc' = "end_select"
    /\ UNCHANGED <<history, action_number, start_idx, filepath, description, resources,
                   outcome, container_log, panic, llm_script, result>>
    /\ RunFrame

\* action_end_task: the exit status is recorded and matched
RecvEndSelect ==
    /\ pc = "end_select"
    /\ \E c \in EndingResponses :
          LET p1 == Append(p, Assistant(c))
              ending == ParseEnding(c)
          IN  /\ completion' = c
              /\ IF ending = "panic"
                 THEN /\ p' = p1
                      /\ pc' = "aborted"
                      /\ panic' = "unknown_ending"
                      /\ UNCHANGED <<last_prompt, last_model, llm_calls>>
                 ELSE /\ p' = Append(p1, System(IF ending = "complete"
                                                THEN ACTION_COMPLETE_TASK_DESCRIPTION
                                                ELSE ACTION_FAIL_TASK_DESCRIPTION))
                      /\ LLMCall(SMART_MODEL, p')
                      /\ pc' = (IF ending = "complete" THEN "complete_description"
                                ELSE "fail_description")
                      /\ panic' = panic
    /\ UNCHANGED <<history, action_number, start_idx, filepath, description, resources,
                   outcome, container_log, llm_script, result>>
    /\ RunFrame

\* the end-task action is recorded in the history like any other action
RecvCompleteDescription_recorded ==
    /\ pc = "complete_description"
    /\ \E c \in DescriptionResponses :
          /\ completion' = c
          /\ outcome' = Complete(c)
          /\ history' = append(history, SubSeq(p, start_idx + 1, Len(p)), c)
    /\ pc' = "done"
    /\ UNCHANGED <<p, action_number, start_idx, filepath, description, resources,
                   last_prompt, last_model, llm_calls, container_log, panic, llm_script,
                   result>>
    /\ RunFrame

\* action_end_task, complete: the description arrives; run returns Complete
RecvCompleteDescription ==
    /\ pc = "complete_description"
    /\ \E c \in DescriptionResponses :
          /\ completion' = c
          /\ outcome' = Complete(c)
    /\ pc' = RunAfter("EndTask")
    /\ UNCHANGED <<history, p, action_number, start_idx, filepath, description, resources,
                   last_prompt, last_model, llm_calls, container_log, panic, llm_script,
                   result>>
    /\ RunFrame

\* action_end_task, failure: the description is kept, the reason is discussed
RecvFailDescription ==
    /\ pc = "fail_description"
    /\ \E c \in DescriptionResponses :
          /\ completion' = c
          /\ description' = c
          /\ p' = p \o <<Assistant(c), System(ACTION_FAIL_TASK_REASON_DISCUSS)>>
    /\ LLMCall(SMART_MODEL, p')
    /\ pc' = "fail_reason_discuss"
    /\ UNCHANGED <<history, action_number, start_idx, filepath, resources, outcome,
                   container_log, panic, llm_script, result>>
    /\ RunFrame

\* the reason discussion overwrites the failure description
RecvFailReasonDiscuss_overwrites ==
    /\ pc = "fail_reason_discuss"
    /\ \E c \in ReasonDiscussResponses :
          /\ completion' = c
          /\ description' = c
          /\ p' = p \o <<Assistant(c), System(ACTION_FAIL_TASK_REASON_SELECT)>>
    /\ LLMCall(BASIC_MODEL, p')
    /\ pc' = "fail_reason_select"
    /\ UNCHANGED <<history, action_number, start_idx, filepath, resources,
                   outcome, container_log, panic, llm_script, result>>
    /\ RunFrame

\* action_end_task, failure: the reason discussion is recorded
RecvFailReasonDiscuss ==
    /\ pc = "fail_reason_discuss"
    /\ \E c \in ReasonDiscussResponses :
          /\ completion' = c
          /\ p' = p \o <<Assistant(c), System(ACTION_FAIL_TASK_REASON_SELECT)>>
    /\ LLMCall(BASIC_MODEL, p')
    /\ pc' = "fail_reason_select"
    /\ UNCHANGED <<history, action_number, start_idx, filepath, description, resources,
                   outcome, container_log, panic, llm_script, result>>
    /\ RunFrame

\* action_end_task, failure: the reason is matched; run returns Failure
RecvFailReasonSelect ==
    /\ pc = "fail_reason_select"
    /\ \E c \in ReasonResponses :
          /\ completion' = c
          /\ outcome' = Failure(ParseReason(c), description)
    /\ pc' = RunAfter("EndTask")
    /\ UNCHANGED <<history, p, action_number, start_idx, filepath, description, resources,
                   last_prompt, last_model, llm_calls, container_log, panic, llm_script,
                   result>>
    /\ RunFrame

\* llm_client.prompt(..) returned Err and unwrap() panicked
\* a failing call that leaves the unfinished action in the history
LLMError_keeps_partial ==
    /\ pc \in AwaitingLLM
    /\ pc' = "aborted"
    /\ panic' = "llm_error"
    /\ history' = append(history, SubSeq(p, start_idx + 1, Len(p)), <<>>)
    /\ UNCHANGED <<p, action_number, start_idx, filepath, description, resources,
                   outcome, completion, last_prompt, last_model, llm_calls, container_log,
                   llm_script, result>>
    /\ RunFrame

LLMError ==
    /\ pc \in AwaitingLLM
    /\ pc' = "aborted"
    /\ panic' = "llm_error"
    /\ UNCHANGED <<history, p, action_number, start_idx, filepath, description, resources,
                   outcome, completion, last_prompt, last_model, llm_calls, container_log,
                   llm_script, result>>
    /\ RunFrame

(***************************************************************************)
(* main.rs after run has returned: the match on the outcome.  Every call   *)
(* is unwrapped, so a failing call panics and main stops where it is.      *)
(***************************************************************************)
CallResults == {"Ok", "Err"}

\* one completed operation of main
MainOp(op, info) == [op |-> op, info |-> info]

\* the arm of the match taken for an outcome: the first call of that arm
MainAfterRun_report_first(o) ==
    IF o.kind = "Complete" THEN "complete_task" ELSE "fail_task"

MainAfterRun(o) ==
    IF o.kind = "Complete" THEN "commit_and_push" ELSE "fail_task"

MainFrame ==
    UNCHANGED <<pc, history, p, action_number, start_idx, filepath, description, resources,
                outcome, completion, last_prompt, last_model, llm_calls, container_log,
                panic, llm_script, result, driver_vars>>

\* the steps of Container::start that can fail, in order, and success
StartResults ==
    {"LoadFailed", "NoImage", "ConnectFailed", "PullFailed", "CreateFailed", "StartFailed",
     "Ok"}

\* Container::start returns the handle of a container it created but did
\* not start
ContainerAfterStart_not_started(r) ==
    CASE r = "Ok" -> [docker |-> "created", handle |-> "held"]
      [] r = "StartFailed" -> [docker |-> "created", handle |-> "none"]
      [] OTHER -> NoContainer

\* the container Container::start leaves behind and the handle it returns
ContainerAfterStart(r) ==
    CASE r = "Ok" -> [docker |-> "running", handle |-> "held"]
      [] r = "StartFailed" -> [docker |-> "created", handle |-> "none"]
      [] OTHER -> NoContainer

\* the handle goes out of scope: Container has no Drop, the Docker
\* container is neither stopped nor removed
DropContainer(c) == [c EXCEPT !.handle = "dropped"]

\* main from Container::start to the head of the loop of run: the container
\* is created and started, the current directory is changed, run asserts
\* the task status
MainStartContainer ==
    /\ main_pc = "start"
    /\ pc = "main"
    /\ \E r \in StartResults, chdir \in CallResults, status \in TaskStatuses :
          /\ ct' = ContainerAfterStart(r)
          /\ IF r # "Ok" \/ chdir = "Err"
             THEN /\ main_pc' = "panicked"
                  /\ pc' = pc
                  /\ panic' = panic
             ELSE /\ main_pc' = "run"
                  /\ pc' = (IF status = "Running" THEN "loop" ELSE "aborted")
                  /\ panic' = (IF status = "Running" THEN "none" ELSE "assert_status")
    /\ UNCHANGED <<history, p, action_number, start_idx, filepath, description, resources,
                   outcome, completion, last_prompt, last_model, llm_calls, container_log,
                   llm_script, result, main_log, driver_vars>>

\* main also handles the outcome of a run that panicked
MainMatchOutcome_after_abort ==
    /\ pc \in {"done", "aborted"}
    /\ main_pc = "run"
    /\ main_pc' = MainAfterRun(outcome)
    /\ main_log' = main_log
    /\ ct' = ct
    /\ MainFrame

\* run has returned its outcome to main
MainMatchOutcome ==
    /\ pc = "done"
    /\ main_pc = "run"
    /\ main_pc' = MainAfterRun(outcome)
    /\ main_log' = main_log
    /\ ct' = ct
    /\ MainFrame

\* git_repo.commit_and_push(): the commit, then the push
commit_and_push ==
    /\ main_pc = "commit_and_push"
    /\ \E commit \in CallResults, push \in CallResults :
          IF commit = "Err"
          THEN /\ main_log' = main_log
               /\ main_pc' = "panicked"
          ELSE IF push = "Err"
          THEN /\ main_log' = Append(main_log, MainOp("commit", <<>>))
               /\ main_pc' = "panicked"
          ELSE /\ main_log' = main_log \o <<MainOp("commit", <<>>), MainOp("push", <<>>)>>
               /\ main_pc' = "complete_task"
    /\ ct' = ct
    /\ MainFrame

\* agent_client.complete_task(info).await.unwrap()
MainCompleteTask ==
    /\ main_pc = "complete_task"
    /\ \E r \in CallResults :
          IF r = "Ok"
          THEN /\ main_log' = Append(main_log, MainOp("complete_task", outcome.description))
               /\ main_pc' = "exit"
               /\ ct' = DropContainer(ct)
          ELSE /\ main_log' = main_log
               /\ main_pc' = "panicked"
               /\ ct' = ct
    /\ MainFrame

\* agent_client.fail_task(info).await.unwrap()
MainFailTask ==
    /\ main_pc = "fail_task"
    /\ \E r \in CallResults :
          IF r = "Ok"
          THEN /\ main_log' = Append(main_log, MainOp("fail_task", outcome.description))
               /\ main_pc' = "exit"
               /\ ct' = DropContainer(ct)
          ELSE /\ main_log' = main_log
               /\ main_pc' = "panicked"
               /\ ct' = ct
    /\ MainFrame

Next ==
    \/ MainStartContainer
    \/ BeginAction
    \/ RecvDiscussFirst
    \/ RecvDiscussAction
    \/ RecvSelectAction
    \/ RecvBashCode
    \/ RecvReadFilepath
    \/ RecvEditFilepath
    \/ RecvEditCreate
    \/ RecvEditDiscuss
    \/ RecvEditReplace
    \/ RecvFollowup
    \/ RecvSummary
    \/ RecvEndDiscuss
    \/ RecvEndSelect
    \/ RecvCompleteDescription
    \/ RecvFailDescription
    \/ RecvFailReasonDiscuss
    \/ RecvFailReasonSelect
    \/ LLMError
    \/ MainMatchOutcome
    \/ commit_and_push
    \/ MainCompleteTask
    \/ MainFailTask

Spec == Init /\ [][Next]_vars

\* run is one sequential task: whenever a step of it can be taken (the
\* awaited response or container result has a value), it is taken
SpecLive == Init /\ [][Next]_vars /\ WF_vars(Next)

(***************************************************************************)
(* The History store on its own: a history created by History::new, then   *)
(* any sequence of append and compressed_prompt calls.                     *)
(***************************************************************************)
HistPrefixes == {<<>>, <<System(<<"intro">>), User(<<"task">>)>>}

HistMessages == {<<>>, <<System(<<"b">>), Assistant(<<"a">>)>>}

HistSummaries == {<<"s1">>, <<"s2">>}

InitHist ==
    /\ pc = "hist"
    /\ \E prefix \in HistPrefixes : history = History_new(prefix)
    /\ result = [op |-> "new", out |-> <<>>]
    /\ p = <<>>
    /\ action_number = 0
    /\ start_idx = 0
    /\ filepath = <<>>
    /\ description = <<>>
    /\ resources = {}
    /\ outcome = NoOutcome
    /\ completion = <<>>
    /\ last_prompt = <<>>
    /\ last_model = "none"
    /\ llm_calls = 0
    /\ container_log = <<>>
    /\ panic = "none"
    /\ llm_script = "none"
    /\ main_pc = "none"
    /\ main_log = <<>>
    /\ ct = NoContainer
    /\ DriversIdle

HistFrame ==
    UNCHANGED <<pc, p, action_number, start_idx, filepath, description, resources, outcome,
                completion, last_prompt, last_model, llm_calls, container_log, panic,
                llm_script, main_pc, main_log, md, retry, dev, ws, req, rd, ct>>

\* history.append(messages, summary)
HistAppend ==
    /\ pc = "hist"
    /\ Len(history.actions) < MaxHistActions
    /\ \E messages \in HistMessages, summary \in HistSummaries :
          history' = append(history, messages, summary)
    /\ result' = [op |-> "append", out |-> <<>>]
    /\ HistFrame

\* history.compressed_prompt(), which takes &self
HistCompressedPrompt ==
    /\ pc = "hist"
    /\ result' = [op |-> "compressed_prompt", out |-> compressed_prompt(history)]
    /\ history' = history
    /\ HistFrame

NextHist == HistAppend \/ HistCompressedPrompt

SpecHist == InitHist /\ [][NextHist]_vars

(***************************************************************************)
(* strip_wrapping_markdown_code_fences on its own: a content made of up to *)
(* MaxPieces pieces, then one call.  A text is here a sequence of          *)
(* characters, so that lengths and indices are those of the code.          *)
(***************************************************************************)
FENCE == <<BT, BT, BT>>

Pieces == {FENCE, <<"\n">>, <<"\r">>, <<" ">>, <<"a">>}

\* the texts made of at most n pieces
RECURSIVE TextsOf(_, _)
TextsOf(pieces, n) ==
    IF n = 0 THEN {<<>>}
    ELSE LET shorter == TextsOf(pieces, n - 1)
         IN  shorter \cup {t \o piece : t \in shorter, piece \in pieces}

Contents == TextsOf(Pieces, MaxPieces)

OtherFrame ==
    UNCHANGED <<pc, history, p, action_number, start_idx, filepath, description, resources,
                outcome, completion, last_prompt, last_model, llm_calls, container_log,
                panic, llm_script, result, main_pc, main_log, ct>>

\* every variable of the run loop and of main, before anything ran
OtherInit ==
    /\ pc = "none"
    /\ history = History_new(<<>>)
    /\ p = <<>>
    /\ action_number = 0
    /\ start_idx = 0
    /\ filepath = <<>>
    /\ description = <<>>
    /\ resources = {}
    /\ outcome = NoOutcome
    /\ completion = <<>>
    /\ last_prompt = <<>>
    /\ last_model = "none"
    /\ llm_calls = 0
    /\ container_log = <<>>
    /\ panic = "none"
    /\ llm_script = "none"
    /\ result = [op |-> "none", out |-> <<>>]
    /\ main_pc = "none"
    /\ main_log = <<>>
    /\ ct = NoContainer

InitFence ==
    /\ \E content \in Contents : md = [IdleMd EXCEPT !.content = content]
    /\ retry = IdleRetry
    /\ dev = IdleDev
    /\ ws = IdleWs
    /\ req = IdleReq
    /\ rd = IdleRd
    /\ OtherInit

\* strip_wrapping_markdown_code_fences(content)
StripCall ==
    /\ ~md.called
    /\ LET l == StripLocals(md.content)
       IN  md' = [md EXCEPT !.called = TRUE,
                            !.start_idx = l.start_idx,
                            !.end_idx = l.end_idx,
                            !.out = strip_wrapping_markdown_code_fences(md.content)]
    /\ UNCHANGED <<retry, dev, ws, req, rd>>
    /\ OtherFrame

NextFence == StripCall

SpecFence == InitFence /\ [][NextFence]_vars

(***************************************************************************)
(* llm.rs retry_exp on its own: one call of the driver around an operation *)
(* whose answers and durations the environment chooses.  Time is counted   *)
(* in ticks of 250 ms; the strategy is ExponentialBackoff with its default *)
(* intervals and the 60 s max_elapsed_time.                                *)
(***************************************************************************)
MAX_ELAPSED_TIME_IN_SECS == 60

\* with_max_elapsed_time(..), in ticks
MaxElapsedTime == MAX_ELAPSED_TIME_IN_SECS * TicksPerSec

\* the default initial interval (500 ms), in ticks
InitialInterval == TicksPerSec \div 2

\* the default max_interval (60 s), in ticks
MaxInterval == 60 * TicksPerSec

\* the default multiplier 1.5, capped at max_interval
IncrementInterval(current_interval) == Min2((current_interval * 3) \div 2, MaxInterval)

\* the default randomization factor 0.5: an interval within 50% of the current one
RandomizedIntervals(current_interval) ==
    ((current_interval + 1) \div 2)..((current_interval * 3) \div 2)

\* what f().await may produce
OkAnswer == [kind |-> "Ok", code |-> "none"]

RateLimitError == [kind |-> "ApiError", code |-> "rate_limit_exceeded"]

OpAnswers ==
    {OkAnswer, RateLimitError,
     [kind |-> "ApiError", code |-> "invalid_api_key"],
     [kind |-> "ApiError", code |-> "none"],
     [kind |-> "Reqwest", code |-> "none"]}

OpDurations == {0, 1, MaxOpTicks}

\* the closure of retry_exp: which errors are handed to the strategy as transient
IsTransient_any_api_error(answer) == answer.kind = "ApiError"

IsTransient(answer) == answer.kind = "ApiError" /\ answer.code = "rate_limit_exceeded"

\* the clock of the strategy, built once per retry_exp call, after a sleep
ElapsedAfterSleep(elapsed, wait) == elapsed + wait

\* ExponentialBackoff::next_backoff: the intervals it may return, -1 for None
NextBackoff_no_max_elapsed_time(elapsed, current_interval) ==
    RandomizedIntervals(current_interval)

NextBackoff(elapsed, current_interval) ==
    IF elapsed > MaxElapsedTime THEN {-1}
    ELSE {IF elapsed + iv <= MaxElapsedTime THEN iv ELSE -1 :
            iv \in RandomizedIntervals(current_interval)}

RetryFrame == UNCHANGED <<md, dev, ws, req, rd>> /\ OtherFrame

InitRetry ==
    /\ retry = [IdleRetry EXCEPT !.pc = "calling", !.current_interval = InitialInterval]
    /\ md = IdleMd
    /\ dev = IdleDev
    /\ ws = IdleWs
    /\ req = IdleReq
    /\ rd = IdleRd
    /\ OtherInit

\* f().await returned: the closure classifies the answer, the strategy decides
RetryOpReturns ==
    /\ retry.pc = "calling"
    /\ \E answer \in OpAnswers, took \in OpDurations :
          LET now == retry.elapsed + took
              r == [retry EXCEPT !.elapsed = now, !.answers = Append(@, answer)]
          IN  IF answer.kind = "Ok" \/ ~IsTransient(answer)
              THEN retry' = [r EXCEPT !.pc = "returned", !.outcome = answer]
              ELSE \E wait \in NextBackoff(now, retry.current_interval) :
                      IF wait = -1
                      THEN retry' = [r EXCEPT !.pc = "returned", !.outcome = answer]
                      ELSE retry' = [r EXCEPT !.pc = "sleeping", !.wait = wait,
                                              !.current_interval = IncrementInterval(@)]
    /\ RetryFrame

\* the sleep before the next attempt is over: f() is called again
RetrySleepDone ==
    /\ retry.pc = "sleeping"
    /\ retry' = [retry EXCEPT !.pc = "calling", !.wait = 0,
                              !.elapsed = ElapsedAfterSleep(retry.elapsed, retry.wait)]
    /\ RetryFrame

NextRetry == RetryOpReturns \/ RetrySleepDone

\* every awaited operation and every sleep of the single task returns
SpecRetry == InitRetry /\ [][NextRetry]_vars /\ WF_vars(NextRetry)

(***************************************************************************)
(* devcontainer json.rs find_devcontainer_json on its own: a directory     *)
(* tree, then one call.  A path is the sequence of its components under    *)
(* the directory; the empty path stands for None.  read_dir is taken to    *)
(* succeed and yields the entries in any order.                            *)
(***************************************************************************)
Subfolders == {ToString(i) : i \in 1..MaxSubfolders}

DevcontainerDir == <<".devcontainer">>

\* paths_to_check
PathsToCheck == <<<<".devcontainer", "devcontainer.json">>, <<".devcontainer.json">>>>

SubfolderJson(folder) == <<".devcontainer", folder, "devcontainer.json">>

\* the directory trees: every entry has its parent directory, none is both
DirCandidates == {DevcontainerDir} \cup {<<".devcontainer", f>> : f \in Subfolders}

FileCandidates ==
    {PathsToCheck[1], PathsToCheck[2], DevcontainerDir}
      \cup {<<".devcontainer", f>> : f \in Subfolders}
      \cup {SubfolderJson(f) : f \in Subfolders}

Parent(path) == SubSeq(path, 1, Len(path) - 1)

Trees ==
    {t \in [files : SUBSET FileCandidates, dirs : SUBSET DirCandidates] :
        /\ t.files \cap t.dirs = {}
        /\ \A e \in t.files \cup t.dirs : Len(e) > 1 => Parent(e) \in t.dirs}

\* Path::exists
Exists(tree, path) == path \in tree.files \cup tree.dirs

\* the first element of a sequence of paths that exists, or None
FindFirst(tree, paths) ==
    LET hits == {i \in 1..Len(paths) : Exists(tree, paths[i])}
    IN  IF hits = {} THEN <<>> ELSE paths[SetMin(hits)]

\* the values find_devcontainer_json may return
find_devcontainer_json(tree) ==
    LET sub == {SubfolderJson(f) : f \in {g \in Subfolders :
                   /\ <<".devcontainer", g>> \in tree.dirs
                   /\ Exists(tree, SubfolderJson(g))}}
    IN  IF DevcontainerDir \in tree.dirs /\ sub # {} THEN sub
        ELSE {FindFirst(tree, PathsToCheck)}

InitDev ==
    /\ \E t \in Trees : dev = [IdleDev EXCEPT !.files = t.files, !.dirs = t.dirs]
    /\ md = IdleMd
    /\ retry = IdleRetry
    /\ ws = IdleWs
    /\ req = IdleReq
    /\ rd = IdleRd
    /\ OtherInit

FindCall ==
    /\ ~dev.called
    /\ \E found \in find_devcontainer_json(dev) :
          dev' = [dev EXCEPT !.called = TRUE, !.found = found]
    /\ UNCHANGED <<md, retry, ws, req, rd>>
    /\ OtherFrame

NextDev == FindCall

SpecDev == InitDev /\ [][NextDev]_vars

(***************************************************************************)
(* main.rs workspace_folder_name on its own: the path of a repository URL, *)
(* a text of characters that starts with a slash, then one call.           *)
(***************************************************************************)
DOT_GIT == <<".", "g", "i", "t">>

UrlPieces == {<<"/">>, DOT_GIT, <<"a">>, <<"b">>}

UrlPaths == {<<"/">> \o t : t \in TextsOf(UrlPieces, MaxUrlPieces)}

\* path.split('/').collect().last(): the text after the last slash
LastSegment(path) ==
    LET slashes == {i \in 1..Len(path) : path[i] = "/"}
    IN  IF slashes = {} THEN path ELSE SubSeq(path, SetMax(slashes) + 1, Len(path))

StartsWith(s, prefix) == Len(s) >= Len(prefix) /\ SubSeq(s, 1, Len(prefix)) = prefix

\* str::replace(from, ""): every match of from, left to right, is dropped
RECURSIVE Remove(_, _)
Remove(s, from) ==
    IF s = <<>> THEN <<>>
    ELSE IF StartsWith(s, from) THEN Remove(SubSeq(s, Len(from) + 1, Len(s)), from)
    ELSE <<s[1]>> \o Remove(SubSeq(s, 2, Len(s)), from)

workspace_folder_name(path) == Remove(LastSegment(path), DOT_GIT)

InitWs ==
    /\ \E path \in UrlPaths : ws = [IdleWs EXCEPT !.path = path]
    /\ md = IdleMd
    /\ retry = IdleRetry
    /\ dev = IdleDev
    /\ req = IdleReq
    /\ rd = IdleRd
    /\ OtherInit

WorkspaceCall ==
    /\ ~ws.called
    /\ ws' = [ws EXCEPT !.called = TRUE, !.name = workspace_folder_name(ws.path)]
    /\ UNCHANGED <<md, retry, dev, req, rd>>
    /\ OtherFrame

NextWs == WorkspaceCall

SpecWs == InitWs /\ [][NextWs]_vars

(***************************************************************************)
(* llm.rs LLMClient::prompt up to the request: a prompt and a model name,  *)
(* then the rendering of the items and the choice of the temperature.  A   *)
(* chat message is its role, the shape of its content (a plain text or a   *)
(* list of content parts) and its text.                                    *)
(***************************************************************************)
O1_MODELS == {"o1-mini", "o1-preview"}

ModelNames == O1_MODELS \cup {"gpt-4o-mini", "o1"}

ChatMessage(role, content, text) == [role |-> role, content |-> content, text |-> text]

\* PromptItem::render
PromptItem_render_o1_mini_only(item, model) ==
    CASE item.role = "User" -> ChatMessage("user", "parts", item.text)
      [] item.role = "System" ->
            IF model = "o1-mini"
            THEN ChatMessage("user", "text", item.text)
            ELSE ChatMessage("system", "text", item.text)
      [] item.role = "Assistant" -> ChatMessage("assistant", "text", item.text)

PromptItem_render(item, model) ==
    CASE item.role = "User" -> ChatMessage("user", "parts", item.text)
      [] item.role = "System" ->
            IF model \in O1_MODELS
            THEN ChatMessage("user", "text", item.text)
            ELSE ChatMessage("system", "text", item.text)
      [] item.role = "Assistant" -> ChatMessage("assistant", "text", item.text)

\* Prompt::render
Prompt_render(items, model) ==
    [i \in 1..Len(items) |-> PromptItem_render(items[i], model)]

\* the temperature of the request: None or Some(0.0)
RequestTemperature(model) == IF model \in O1_MODELS THEN "none" ELSE "0.0"

RenderItems == {<<System(<<"s">>)>>, <<User(<<"u">>)>>, <<Assistant(<<"a">>)>>}

InitRender ==
    /\ \E items \in TextsOf(RenderItems, MaxPromptItems), model \in ModelNames :
          req = [IdleReq EXCEPT !.items = items, !.model = model]
    /\ md = IdleMd
    /\ retry = IdleRetry
    /\ dev = IdleDev
    /\ ws = IdleWs
    /\ rd = IdleRd
    /\ OtherInit

\* LLMClient::prompt builds the CreateChatCompletionRequest
RenderCall ==
    /\ ~req.called
    /\ req' = [req EXCEPT !.called = TRUE,
                          !.messages = Prompt_render(req.items, req.model),
                          !.temperature = RequestTemperature(req.model)]
    /\ UNCHANGED <<md, retry, dev, ws, rd>>
    /\ OtherFrame

NextRender == RenderCall

SpecRender == InitRender /\ [][NextRender]_vars

(***************************************************************************)
(* container.rs: Container::read_file.  The download is a stream whose     *)
(* items are chunks of bytes or an error; the bytes are a tar archive,     *)
(* seen here as the sequence of its entries.  A chunk carries zero or more *)
(* whole entries.                                                          *)
(***************************************************************************)
\* chunks of one download
MaxChunks == 2

\* Result<String, ReadFileError>
ReadOk(content) == [kind |-> "Ok", text |-> content]

ReadNotFound == [kind |-> "NotFound", text |-> <<>>]

ReadOther(message) == [kind |-> "Other", text |-> message]

\* entries of the archive: readable files, one of them not UTF-8, and an
\* entry the archive reader fails on
ArchiveEntries ==
    {[kind |-> "file", text |-> <<"X">>, utf8 |-> TRUE],
     [kind |-> "file", text |-> <<"Y">>, utf8 |-> TRUE],
     [kind |-> "file", text |-> <<"bin">>, utf8 |-> FALSE],
     [kind |-> "corrupt", text |-> <<>>, utf8 |-> TRUE]}

\* Ok(Some(chunk)) items of the stream
Chunk(entries) == [kind |-> "chunk", status |-> 0, msg |-> <<>>, entries |-> entries]

Chunks == {Chunk(<<>>)} \cup {Chunk(<<e>>) : e \in ArchiveEntries}

\* Err(e) items: DockerResponseServerError with its status code, or another
\* error of the transport
StreamErrors ==
    {[kind |-> "server", status |-> 404, msg |-> <<"no such file">>, entries |-> <<>>],
     [kind |-> "server", status |-> 500, msg |-> <<"server error">>, entries |-> <<>>],
     [kind |-> "transport", status |-> 0, msg |-> <<"connection reset">>, entries |-> <<>>]}

\* a download: chunks, then the end of the stream or an error
Streams ==
    LET chunks == TextsOf({<<c>> : c \in Chunks}, MaxChunks)
    IN  chunks \cup {cs \o <<e>> : cs \in chunks, e \in StreamErrors}

\* the Err(e) arm of the loop treats every server error as a missing file
StreamErrorResult_any_server_error(e) ==
    IF e.kind = "server" THEN ReadNotFound ELSE ReadOther(e.msg)

\* the Err(e) arm of the loop: 404 is NotFound, the rest is Other
StreamErrorResult(e) ==
    IF e.kind = "server" /\ e.status = 404 THEN ReadNotFound ELSE ReadOther(e.msg)

\* the archive part: entries(), next(), the entry, read_to_string
ExtractFirst(bytes, entries_ok) ==
    IF ~entries_ok THEN ReadOther(<<"archive error">>)
    ELSE IF bytes = <<>> THEN ReadNotFound
    ELSE IF bytes[1].kind = "corrupt" THEN ReadOther(<<"entry error">>)
    ELSE IF ~bytes[1].utf8 THEN ReadOther(<<"stream did not contain valid UTF-8">>)
    ELSE ReadOk(bytes[1].text)

InitRd ==
    /\ \E stream \in Streams, entries_ok \in BOOLEAN :
          rd = [IdleRd EXCEPT !.pc = "stream", !.stream = stream, !.entries_ok = entries_ok]
    /\ md = IdleMd
    /\ retry = IdleRetry
    /\ dev = IdleDev
    /\ ws = IdleWs
    /\ req = IdleReq
    /\ OtherInit

\* one stream.try_next().await of the loop
RdTryNext ==
    /\ rd.pc = "stream"
    /\ IF rd.pos = Len(rd.stream)
       THEN rd' = [rd EXCEPT !.pc = "archive"]
       ELSE LET item == rd.stream[rd.pos + 1]
            IN  IF item.kind = "chunk"
                THEN rd' = [rd EXCEPT !.pos = @ + 1, !.bytes = @ \o item.entries]
                ELSE rd' = [rd EXCEPT !.pos = @ + 1, !.pc = "done",
                                      !.result = StreamErrorResult(item)]
    /\ UNCHANGED <<md, retry, dev, ws, req>>
    /\ OtherFrame

\* the stream has ended: the first entry of the archive is read
RdExtract ==
    /\ rd.pc = "archive"
    /\ rd' = [rd EXCEPT !.pc = "done", !.result = ExtractFirst(rd.bytes, rd.entries_ok)]
    /\ UNCHANGED <<md, retry, dev, ws, req>>
    /\ OtherFrame

NextRd == RdTryNext \/ RdExtract

SpecRd == InitRd /\ [][NextRd]_vars

(***************************************************************************)
(* Properties                                                              *)
(***************************************************************************)
\* sum of the message counts of actions[from..to]
RECURSIVE MessageCount(_, _, _)
MessageCount(actions, from, to) ==
    IF from > to THEN 0
    ELSE Len(actions[from].messages) + MessageCount(actions, from + 1, to)

IsSummaryItem(item) ==
    /\ item.role = "System"
    /\ Len(item.text) > 0
    /\ item.text[1] = "Summary for action "

\* C1: once an end-task action has resolved, run has returned exactly that
\* outcome and nothing happens any more: no LLM call, no container
\* operation, no history append, and the outcome does not change.
C1_EndTaskTerminates ==
    /\ [](outcome # NoOutcome => pc = "done")
    /\ [][outcome # NoOutcome =>
            /\ pc' = "done"
            /\ outcome' = outcome
            /\ llm_calls' = llm_calls
            /\ container_log' = container_log
            /\ history' = history]_vars

C1_Witness ==
    /\ pc = "done"
    /\ outcome.kind = "Complete"
    /\ Len(history.actions) > 0
    /\ container_log # <<>>

\* C2: after any sequence of appends, actions[i].number = i (zero-based) for
\* every i, and a step never removes, reorders or modifies a recorded action.
C2_NumbersAppendOnly ==
    /\ [](\A i \in 1..Len(history.actions) : history.actions[i].number = i - 1)
    /\ [][/\ Len(history.actions') >= Len(history.actions)
          /\ \A i \in 1..Len(history.actions) :
                history.actions'[i] = history.actions[i]]_vars

C2_Witness ==
    /\ result.op = "append"
    /\ Len(history.actions) >= 3
    /\ history.actions[3].number = 2

\* C3: compressed_prompt() of a history with n actions has len(prefix) prefix
\* items, then max(0, n-5) summary items, then the message blocks of the last
\* min(n, 5) actions; its length is the sum of the three.
C3_CompressionBound ==
    result.op = "compressed_prompt" =>
        LET n == Len(history.actions)
            k == Max2(0, n - 5)
            m == Min2(n, 5)
            pl == Len(history.prefix)
        IN  /\ Len(result.out) = pl + k + MessageCount(history.actions, n - m + 1, n)
            /\ \A j \in 1..k : IsSummaryItem(result.out[pl + j])

C3_Witness ==
    /\ result.op = "compressed_prompt"
    /\ Len(history.actions) = 7
    /\ Len(history.prefix) = 2
    /\ Len(result.out) = 2 + 2 + 4
    /\ Len(history.actions[1].messages) = 2

\* C4: compressed_prompt() emits the prefix unchanged, then one item
\* "Summary for action <number>: <summary>" for each of the first
\* max(0, n-5) actions in ascending number, then the messages of the other
\* actions in action order and item order; the call leaves the history alone.
C4_CompressionOrder ==
    /\ [](result.op = "compressed_prompt" =>
            LET n == Len(history.actions)
                skip == Max2(0, n - 5)
                pl == Len(history.prefix)
                out == result.out
                Off(j) == pl + skip + MessageCount(history.actions, skip + 1, j - 1)
            IN  /\ Len(out) = Off(n + 1)
                /\ \A x \in 1..pl : out[x] = history.prefix[x]
                /\ \A i \in 1..skip :
                      out[pl + i] = System(<<"Summary for action ", ToString(i - 1), ": ">>
                                            \o history.actions[i].summary)
                /\ \A j \in (skip + 1)..n :
                      \A x \in 1..Len(history.actions[j].messages) :
                          out[Off(j) + x] = history.actions[j].messages[x])
    /\ [][result'.op = "compressed_prompt" => history' = history]_vars

C4_Witness ==
    /\ result.op = "compressed_prompt"
    /\ Len(history.actions) = 7
    /\ history.actions[1].summary # history.actions[2].summary
    /\ Len(history.actions[3].messages) = 2
    /\ Len(history.actions[7].messages) = 2
    /\ Len(history.prefix) = 2

LastItem(seq) == seq[Len(seq)]

NumSummaryItems(items) == Cardinality({x \in 1..Len(items) : IsSummaryItem(items[x])})

\* the first n recorded actions exist and each of them ran a bash script
BashActions(n) ==
    /\ Len(history.actions) >= n
    /\ \A i \in 1..n :
          \E x \in 1..Len(history.actions[i].messages) :
              history.actions[i].messages[x] = System(ACTION_BASH)

\* the compressed prompt the current (or last) single_action started from
StartPrompt == SubSeq(p, 1, start_idx)

\* C5 as stated: after six bash actions the compressed prompt contains five
\* summary items.
C5_FiveSummaries ==
    (action_number = 6 /\ Len(p) > 0 /\ BashActions(6)) => NumSummaryItems(StartPrompt) = 5

\* C5, amended: after six bash actions the compressed prompt contains exactly
\* one summary item, the one of action 0, followed by the full messages of
\* actions 1..5; the compressed prompt computed with five recorded actions
\* contains no summary item.
C5_OneSummary ==
    /\ (action_number = 6 /\ Len(p) > 0 /\ BashActions(6)) =>
          /\ NumSummaryItems(StartPrompt) = 1
          /\ StartPrompt[Len(history.prefix) + 1] =
                System(<<"Summary for action ", "0", ": ">> \o history.actions[1].summary)
          /\ start_idx = Len(history.prefix) + 1 + MessageCount(history.actions, 2, 6)
    /\ (action_number = 5 /\ Len(p) > 0 /\ BashActions(5)) =>
          /\ NumSummaryItems(StartPrompt) = 0
          /\ start_idx = Len(history.prefix) + MessageCount(history.actions, 1, 5)

C5_Witness ==
    /\ llm_script = "bash"
    /\ action_number = 6
    /\ pc = "select_action"
    /\ BashActions(6)
    /\ NumSummaryItems(StartPrompt) = 1

EndTaskPcs ==
    {"end_discuss", "end_select", "complete_description", "fail_description",
     "fail_reason_discuss", "fail_reason_select"}

\* C6: an end-task action, whichever exit status is chosen, never appends to
\* the history and never issues the summarize query: the history is the same
\* from the selection of end-task to the return of EndTask.
C6_EndTaskLeavesHistory ==
    /\ [](pc = "done" => Len(history.actions) = action_number)
    /\ [][(pc \in EndTaskPcs \/ pc' \in EndTaskPcs \cup {"done"}) =>
            /\ history' = history
            /\ llm_calls' # llm_calls =>
                  LastItem(last_prompt') # System(SummarizeMsg(action_number))]_vars

C6_Witness ==
    /\ pc = "done"
    /\ outcome.kind = "Failure"
    /\ Len(history.actions) = 2
    /\ action_number = 2

\* C7: a response to SELECT_ACTION that is not exactly bash, read-file,
\* edit-file or end-task, and a response to ACTION_END_TASK_SELECT that is not
\* exactly complete or failure, aborts the run, before any container
\* operation of that action and with the history unchanged.
C7_OffVocabularyAborts ==
    [][/\ (/\ pc = "select_action"
           /\ panic' # "llm_error"
           /\ completion' \notin {<<"bash">>, <<"read-file">>, <<"edit-file">>, <<"end-task">>})
          => /\ pc' = "aborted"
             /\ panic' = "unexpected_action"
             /\ history' = history
             /\ llm_calls' = llm_calls
             /\ container_log' = container_log
             /\ \A x \in 1..Len(container_log) : container_log[x].action # action_number
       /\ (/\ pc = "end_select"
           /\ panic' # "llm_error"
           /\ completion' \notin {<<"complete">>, <<"failure">>})
          => /\ pc' = "aborted"
             /\ panic' = "unknown_ending"
             /\ history' = history
             /\ llm_calls' = llm_calls
             /\ container_log' = container_log
             /\ \A x \in 1..Len(container_log) : container_log[x].action # action_number]_vars

C7_Witness ==
    /\ pc = "aborted"
    /\ panic = "unexpected_action"
    /\ completion = <<"bash", "\n">>
    /\ Len(history.actions) = 1
    /\ container_log # <<>>

\* the response that followed the request q in a prompt
ResponseTo(prompt, q) ==
    LET x == CHOOSE x \in 1..(Len(prompt) - 1) : prompt[x] = System(q)
    IN  prompt[x + 1].text

\* C8: a failure-reason response outside technical-issues, task-issues,
\* problem-solving is not fatal: run returns Failure with the absent reason
\* and with the description given in answer to ACTION_FAIL_TASK_DESCRIPTION.
C8_UnknownReasonNotFatal ==
    [][(/\ pc = "fail_reason_select"
        /\ panic' # "llm_error"
        /\ completion' \notin {<<"technical-issues">>, <<"task-issues">>, <<"problem-solving">>})
       => /\ pc' = "done"
          /\ panic' = "none"
          /\ outcome' = [kind |-> "Failure", reason |-> "None",
                         description |-> ResponseTo(last_prompt,
                                                    ACTION_FAIL_TASK_DESCRIPTION)]]_vars

C8_Witness ==
    /\ pc = "done"
    /\ outcome = [kind |-> "Failure", reason |-> "None", description |-> <<"stuck">>]
    /\ completion = <<"task-issues", "\n">>

\* the step performed a read_file whose result was res
ReadStep(res) ==
    /\ Len(container_log') = Len(container_log) + 1
    /\ LastItem(container_log').op = "read_file"
    /\ LastItem(container_log').res = res

\* C9: a read_file failure (NotFound or Other in read-file, Other in
\* edit-file) neither aborts nor ends the task: the note is appended, the
\* follow-up discussion is asked, and from there the END ACTION marker, the
\* summary and the history append follow and single_action returns Continue.
C9_ReadFailureContinues ==
    [][/\ (pc = "read_filepath" /\ ReadStep("NotFound")) =>
            /\ pc' = "followup" /\ panic' = "none" /\ outcome' = NoOutcome
            /\ history' = history
            /\ p' = p \o <<Assistant(completion'), System(<<"The file does not exist.">>),
                          System(DISCUSS_READ_FILE)>>
            /\ last_prompt' = p'
       /\ (pc = "read_filepath" /\ ReadStep("Other")) =>
            /\ pc' = "followup" /\ panic' = "none" /\ outcome' = NoOutcome
            /\ history' = history
            /\ Len(p') = Len(p) + 3
            /\ p'[Len(p) + 1] = Assistant(completion')
            /\ p'[Len(p) + 2].role = "System"
            /\ p'[Len(p) + 2].text[1] = "An error occured while reading the file: "
            /\ p'[Len(p) + 3] = System(DISCUSS_READ_FILE)
            /\ last_prompt' = p'
       /\ (pc = "edit_filepath" /\ ReadStep("Other")) =>
            /\ pc' = "followup" /\ panic' = "none" /\ outcome' = NoOutcome
            /\ history' = history
            /\ Len(p') = Len(p) + 3
            /\ p'[Len(p) + 1] = Assistant(completion')
            /\ p'[Len(p) + 2].role = "System"
            /\ p'[Len(p) + 2].text[1] = "An error occured while reading the file: "
            /\ p'[Len(p) + 3] = System(DISCUSS_EDIT_FILE)
            /\ last_prompt' = p'
       /\ (pc = "followup" /\ panic' # "llm_error") =>
            /\ pc' = "summarize" /\ outcome' = NoOutcome
            /\ history' = history
            /\ p' = p \o <<Assistant(completion'),
                          System(<<"END ACTION ", ToString(action_number)>>)>>
       /\ (pc = "summarize" /\ panic' # "llm_error") =>
            /\ pc' = "loop" /\ panic' = "none" /\ outcome' = NoOutcome
            /\ Len(history.actions') = Len(history.actions) + 1
            /\ LastItem(history.actions').messages = SubSeq(p, start_idx + 1, Len(p))]_vars

C9_Witness ==
    /\ pc = "loop"
    /\ Len(history.actions) = 2
    /\ \E x \in 1..Len(history.actions[1].messages) :
          /\ history.actions[1].messages[x] = System(<<"The file does not exist.">>)
          /\ history.actions[1].messages[x + 1] = System(DISCUSS_READ_FILE)
    /\ \E y \in 1..Len(history.actions[2].messages) :
          /\ history.actions[2].messages[y] = System(<<"An error occured while reading the file: ", "io error">>)
          /\ history.actions[2].messages[y + 1] = System(DISCUSS_EDIT_FILE)

\* the reason value that matches a reason token
ReasonOf(c) ==
    CASE c = <<"technical-issues">> -> "TechnicalIssues"
      [] c = <<"task-issues">> -> "TaskIssues"
      [] c = <<"problem-solving">> -> "ProblemSolving"
      [] OTHER -> "None"

\* C10: the outcome follows the status token: after complete it is Complete
\* with the response to ACTION_COMPLETE_TASK_DESCRIPTION; after failure it is
\* Failure with the response to ACTION_FAIL_TASK_DESCRIPTION (not the reason
\* discussion) and the reason matching the response to
\* ACTION_FAIL_TASK_REASON_SELECT.
C10_OutcomeFollowsStatus ==
    pc = "done" =>
        LET n == Len(last_prompt)
        IN  \/ /\ outcome.kind = "Complete"
               /\ last_prompt[n] = System(ACTION_COMPLETE_TASK_DESCRIPTION)
               /\ last_prompt[n - 1] = Assistant(<<"complete">>)
               /\ last_prompt[n - 2] = System(ACTION_END_TASK_SELECT)
               /\ outcome.description = completion
            \/ /\ outcome.kind = "Failure"
               /\ last_prompt[n] = System(ACTION_FAIL_TASK_REASON_SELECT)
               /\ outcome.reason = ReasonOf(completion)
               /\ last_prompt[n - 1].role = "Assistant"
               /\ last_prompt[n - 2] = System(ACTION_FAIL_TASK_REASON_DISCUSS)
               /\ last_prompt[n - 3] = Assistant(outcome.description)
               /\ last_prompt[n - 4] = System(ACTION_FAIL_TASK_DESCRIPTION)
               /\ last_prompt[n - 5] = Assistant(<<"failure">>)
               /\ last_prompt[n - 6] = System(ACTION_END_TASK_SELECT)

C10_Witness ==
    /\ pc = "done"
    /\ outcome = [kind |-> "Failure", reason |-> "TaskIssues", description |-> <<"stuck">>]
    /\ completion = <<"task-issues">>

\* the names of the operations main has completed, in order
MainOps == [i \in 1..Len(main_log) |-> main_log[i].op]

MainDid(op) == \E i \in 1..Len(main_log) : MainOps[i] = op

\* every completed b has a completed a before it
MainBefore(a, b) ==
    \A j \in 1..Len(main_log) :
        MainOps[j] = b => \E i \in 1..(j - 1) : MainOps[i] = a

\* C11: the repository is committed and pushed only when the outcome of the
\* loop is Complete: on Complete the commit and the push come before
\* complete_task is reported; on Failure only fail_task is reported and no
\* commit or push is ever performed.
C11_CommitOnlyOnComplete ==
    /\ (MainDid("commit") \/ MainDid("push") \/ MainDid("complete_task"))
          => outcome.kind = "Complete"
    /\ MainBefore("commit", "push")
    /\ MainBefore("push", "complete_task")
    /\ MainDid("fail_task") => outcome.kind = "Failure"
    /\ outcome.kind = "Failure" => \A i \in 1..Len(main_log) : MainOps[i] = "fail_task"
    /\ outcome = NoOutcome => main_log = <<>>
    /\ main_pc = "exit" =>
          MainOps = (IF outcome.kind = "Complete"
                     THEN <<"commit", "push", "complete_task">>
                     ELSE <<"fail_task">>)

C11_Witness ==
    /\ outcome.kind = "Complete"
    /\ main_pc = "exit"
    /\ MainDid("push")
    /\ main_log[Len(main_log)] = MainOp("complete_task", outcome.description)

\* the trimmed form T of the content given to the stripper
MdT == trim(md.content)

\* the positions of the newlines of a text
Newlines(t) == {i \in 1..Len(t) : t[i] = "\n"}

\* the positions where a fence line of a text starts
FenceLines(t) == {i \in LineStarts(t) : FenceAt(t, i)}

FirstIsFence(t) == 1 \in FenceLines(t)

LastLineStart(t) == IF Newlines(t) = {} THEN 1 ELSE SetMax(Newlines(t)) + 1

LastIsFence(t) == LastLineStart(t) \in FenceLines(t)

\* C12: an input whose trimmed form has no line starting with three
\* backquotes is returned as it is, surrounding whitespace included.
C12_NoFenceIdentity ==
    (md.called /\ FenceLines(MdT) = {}) => md.out = md.content

C12_Witness ==
    /\ md.called
    /\ FenceLines(MdT) = {}
    /\ \E i \in 1..Len(MdT) : MdT[i] = BT
    /\ Len(md.content) >= Len(MdT) + 2
    /\ IsWhitespace(md.content[1])
    /\ IsWhitespace(md.content[Len(md.content)])
    /\ md.out = md.content

\* C13: when the trimmed form T has at least two lines and both its first
\* and its last line are fence lines, the result is T without its first
\* line and that line's newline and without the text of its last line.
C13_WrappedStripped ==
    (md.called /\ Newlines(MdT) # {} /\ FirstIsFence(MdT) /\ LastIsFence(MdT))
      => md.out = SubSeq(MdT, SetMin(Newlines(MdT)) + 1, SetMax(Newlines(MdT)))

\* C14: when the trimmed form has an even, non-zero number of fence lines
\* and its first line is not a fence line, the untrimmed input is returned
\* unchanged, also when the last line is a fence line.
C14_EvenFencesIdentity ==
    (/\ md.called
     /\ FenceLines(MdT) # {}
     /\ Cardinality(FenceLines(MdT)) % 2 = 0
     /\ ~FirstIsFence(MdT))
      => md.out = md.content

C14_Witness ==
    /\ md.called
    /\ Cardinality(FenceLines(MdT)) = 2
    /\ ~FirstIsFence(MdT)
    /\ LastIsFence(MdT)
    /\ md.content # MdT
    /\ md.out = md.content

\* C15: with a single fence line that is the first line of the trimmed
\* text, the result is the trimmed text without that line and its newline;
\* with an odd number of fence lines, the first line not being one and the
\* last line being one, the result is the trimmed text without the text of
\* its last line.
C15_UnmatchedFence ==
    md.called =>
      /\ (Cardinality(FenceLines(MdT)) = 1 /\ FirstIsFence(MdT))
            => md.out = (IF Newlines(MdT) = {} THEN <<>>
                         ELSE SubSeq(MdT, SetMin(Newlines(MdT)) + 1, Len(MdT)))
      /\ (Cardinality(FenceLines(MdT)) % 2 = 1 /\ ~FirstIsFence(MdT) /\ LastIsFence(MdT))
            => md.out = SubSeq(MdT, 1, LastLineStart(MdT) - 1)

\* C16: the indices of the stripper satisfy 0 <= start <= end <= len(T),
\* and an input that is only one fence line, or only two fence lines,
\* yields the empty text.
C16_IndicesInBounds ==
    (md.called /\ FenceLines(MdT) # {}) =>
      /\ 0 <= md.start_idx
      /\ md.start_idx <= md.end_idx
      /\ md.end_idx <= Len(MdT)
      /\ (Newlines(MdT) = {} /\ FirstIsFence(MdT)) => md.out = <<>>
      /\ (Cardinality(Newlines(MdT)) = 1 /\ FirstIsFence(MdT) /\ LastIsFence(MdT))
            => md.out = <<>>

\* the answers of the attempts of the retry driver before the latest one
EarlierAnswers == SubSeq(retry.answers, 1, Len(retry.answers) - 1)

\* C17: the retry driver calls the operation again only after it failed with
\* the API error code rate_limit_exceeded; after any other error it returns
\* that error, and after a success it returns the value, with no further
\* attempt.
C17_RetryOnlyOnRateLimit ==
    /\ \A i \in 1..Len(EarlierAnswers) : EarlierAnswers[i] = RateLimitError
    /\ (retry.pc \in {"calling", "sleeping"} /\ retry.answers # <<>>)
          => LastItem(retry.answers) = RateLimitError
    /\ (retry.answers # <<>> /\ LastItem(retry.answers) # RateLimitError)
          => retry.pc = "returned"
    /\ retry.pc = "returned" => retry.outcome = LastItem(retry.answers)
    /\ retry.pc # "returned" => retry.outcome = NoAnswer

C17_Witness ==
    /\ retry.pc = "returned"
    /\ Len(retry.answers) = 3
    /\ retry.outcome = [kind |-> "ApiError", code |-> "invalid_api_key"]

\* C18: a call of the retry driver always returns; no attempt starts once
\* the 60 seconds counted from the start of the call are used up, so an
\* operation that keeps failing with rate_limit_exceeded makes the driver
\* give up and return that error.
C18_RetryTerminates ==
    /\ <>(retry.pc = "returned")
    /\ [](retry.pc = "sleeping" => retry.elapsed + retry.wait <= MaxElapsedTime)
    /\ []((retry.pc = "returned" /\ LastItem(retry.answers) = RateLimitError)
            => retry.outcome = RateLimitError)

C18_Witness ==
    /\ retry.pc = "returned"
    /\ Len(retry.answers) >= 5
    /\ \A i \in 1..Len(retry.answers) : retry.answers[i] = RateLimitError
    /\ retry.outcome = RateLimitError

\* the sub-folder files of the tree given to find_devcontainer_json
ExistingSubfolderJsons ==
    {SubfolderJson(f) : f \in {g \in Subfolders : SubfolderJson(g) \in dev.files}}

\* C19: find_devcontainer_json returns the first existing file in the order
\* .devcontainer/devcontainer.json, .devcontainer.json,
\* .devcontainer/<folder>/devcontainer.json, and None when none exists.
C19_PrecedenceOrder ==
    dev.called =>
      IF PathsToCheck[1] \in dev.files THEN dev.found = PathsToCheck[1]
      ELSE IF PathsToCheck[2] \in dev.files THEN dev.found = PathsToCheck[2]
      ELSE IF ExistingSubfolderJsons # {} THEN dev.found \in ExistingSubfolderJsons
      ELSE dev.found = <<>>

\* the part of a segment before a ".git" that ends it
WithoutTrailingDotGit(segment) ==
    IF Len(segment) >= 4 /\ SubSeq(segment, Len(segment) - 3, Len(segment)) = DOT_GIT
    THEN SubSeq(segment, 1, Len(segment) - 4)
    ELSE segment

\* C20: the workspace folder name is the last path segment of the URL with
\* only a ".git" at its end removed; every other character is kept.
C20_OnlyTrailingDotGit ==
    ws.called =>
      ws.name = WithoutTrailingDotGit(
                  SubSeq(ws.path,
                         SetMax({i \in 1..Len(ws.path) : ws.path[i] = "/"}) + 1,
                         Len(ws.path)))

\* the role of the chat message an item is to be rendered as for a model
ExpectedRole(item, model) ==
    IF item.role = "System"
    THEN (IF model = "o1-mini" \/ model = "o1-preview" THEN "user" ELSE "system")
    ELSE IF item.role = "User" THEN "user" ELSE "assistant"

\* C21: rendering yields one chat message per prompt item, in order; a
\* System item becomes a user message exactly for o1-mini and o1-preview,
\* User and Assistant items keep their role, and the temperature is omitted
\* for exactly those two models and 0.0 otherwise.
C21_RenderByModel ==
    req.called =>
      /\ Len(req.messages) = Len(req.items)
      /\ \A i \in 1..Len(req.items) :
            /\ req.messages[i].role = ExpectedRole(req.items[i], req.model)
            /\ req.messages[i].text = req.items[i].text
      /\ req.temperature = "none" <=> req.model \in {"o1-mini", "o1-preview"}
      /\ req.temperature # "none" => req.temperature = "0.0"

C21_Witness ==
    /\ req.called
    /\ req.model = "o1-preview"
    /\ Len(req.items) = 3
    /\ req.items[1].role = "System" /\ req.messages[1].role = "user"
    /\ req.items[2].role = "User" /\ req.messages[2].role = "user"
    /\ req.items[3].role = "Assistant" /\ req.messages[3].role = "assistant"
    /\ req.temperature = "none"

\* the step is a container read of path with result res
ReadStepOf(path, res) ==
    /\ ReadStep(res)
    /\ LastItem(container_log').path = path

\* C22: the resources ledger only grows: a path once in it stays in it, and
\* adding a path that is already present leaves the set unchanged.
C22_ResourcesMonotone ==
    [][/\ resources \subseteq resources'
       /\ \A path \in resources :
             (ReadStepOf(path, "Ok") \/ (pc = "edit_create" /\ filepath = path))
                => resources' = resources]_vars

C22_Witness ==
    /\ Cardinality(resources) = 2
    /\ Len(container_log) >= 2
    /\ container_log[1].op = "read_file" /\ container_log[1].res = "Ok"
    /\ container_log[1].path \in resources
    /\ LastItem(container_log).path # container_log[1].path

\* the paths of the container operations op that ended with res
LoggedPaths(op, res) ==
    {container_log[i].path : i \in {j \in 1..Len(container_log) :
        container_log[j].op = op /\ container_log[j].res \in res}}

\* C23: Resources holds exactly the model-given paths read or written: a
\* path is added after every successful read and in the create branch of
\* edit-file (where the write follows), and a read that failed with NotFound
\* in read-file, or with Other in either action, adds nothing.
C23_ResourcesExact ==
    /\ [](resources = LoggedPaths("read_file", {"Ok"})
                        \cup LoggedPaths("write_file", {"Ok", "Err"}))
    /\ [][/\ (pc \in {"read_filepath", "edit_filepath"} /\ ReadStep("Ok"))
               => resources' = resources \cup {completion'}
          /\ (pc = "read_filepath" /\ ReadStep("NotFound")) => resources' = resources
          /\ (pc \in {"read_filepath", "edit_filepath"} /\ ReadStep("Other"))
               => resources' = resources
          /\ (pc = "edit_create" /\ panic' # "llm_error")
               => resources' = resources \cup {filepath}]_vars

C23_Witness ==
    /\ pc = "loop"
    /\ Len(container_log) = 3
    /\ container_log[1].op = "read_file" /\ container_log[1].res = "NotFound"
    /\ container_log[2].op = "write_file" /\ container_log[2].path = container_log[1].path
    /\ container_log[3].op = "read_file" /\ container_log[3].res = "Other"
    /\ container_log[3].path # container_log[1].path
    /\ resources = {container_log[1].path}

\* the entries of container_log made by action k for operation op
OpsOf(k, op) ==
    {i \in 1..Len(container_log) : container_log[i].action = k /\ container_log[i].op = op}

\* the recorded action k + 1 of the history is an edit-file action
IsEditAction(k) ==
    \E x \in 1..Len(history.actions[k + 1].messages) :
        history.actions[k + 1].messages[x] = System(ACTION_EDIT_FILEPATH)

\* the text of the Assistant item right before the ACTION_EDITED note
EditedText(k) ==
    LET m == history.actions[k + 1].messages
        x == CHOOSE y \in 1..Len(m) : m[y] = System(ACTION_EDITED)
    IN  m[x - 1].text

\* the text without a fence line at its start and at its end
Unfenced(text) ==
    IF Len(text) >= 3 /\ SubSeq(text, 1, 3) = <<BT, BT, BT>>
    THEN SubSeq(text, SetMin({i \in 1..Len(text) : text[i] = "\n"}) + 1,
                SetMax({i \in 1..Len(text) : text[i] = "\n"}))
    ELSE text

\* C24: an edit-file action issues exactly one write_file, to the model-given
\* path, when its read returned Ok or NotFound, with the fence-stripped text
\* of the last response of the reasoning model as content; when the read
\* returned Other it issues no write.
C24_EditWritesOnce ==
    /\ [](\A k \in 0..(Len(history.actions) - 1) :
            IsEditAction(k) =>
              /\ Cardinality(OpsOf(k, "read_file")) = 1
              /\ LET r == container_log[CHOOSE i \in OpsOf(k, "read_file") : TRUE]
                 IN  IF r.res = "Other"
                     THEN OpsOf(k, "write_file") = {}
                     ELSE /\ Cardinality(OpsOf(k, "write_file")) = 1
                          /\ LET w == container_log[CHOOSE i \in OpsOf(k, "write_file") : TRUE]
                             IN  /\ w.path = r.path
                                 /\ w.content = Unfenced(EditedText(k)))
    /\ [][(Len(container_log') > Len(container_log)
             /\ LastItem(container_log').op = "write_file")
            => /\ pc \in {"edit_create", "edit_replace"}
               /\ last_model = SMART_MODEL
               /\ LastItem(container_log').path = filepath
               /\ LastItem(container_log').content = Unfenced(completion')
               /\ OpsOf(action_number, "write_file") = {}]_vars

C24_Witness ==
    /\ pc = "loop"
    /\ Len(history.actions) = 2
    /\ IsEditAction(0) /\ IsEditAction(1)
    /\ Len(container_log) = 4
    /\ container_log[1].res = "NotFound"
    /\ container_log[2].op = "write_file"
    /\ container_log[2].content = <<"hello", "\n">>
    /\ EditedText(0) = <<BT, BT, BT, "\n", "hello", "\n", BT, BT, BT>>
    /\ container_log[3].res = "Ok"
    /\ container_log[4].op = "write_file"

\* the position of the ACTION_BASH request in the recorded action k + 1, or 0
BashRequestAt(k) ==
    LET m == history.actions[k + 1].messages
        xs == {x \in 1..Len(m) : m[x] = System(ACTION_BASH)}
    IN  IF xs = {} THEN 0 ELSE SetMin(xs)

\* text carries stdout, stderr and the exit status of a script output
CarriesOutput(text, stdout, stderr, exit_code) ==
    LET b == Len(text) - Len(stderr) - 8
    IN  /\ b >= 2
        /\ SubSeq(text, Len(text) - 2, Len(text)) = <<"Exit status: ", ToString(exit_code), "\n">>
        /\ SubSeq(text, b, b + Len(stderr)) = <<"\n">> \o stderr
        /\ \E a \in 1..(b - Len(stdout) - 1) :
              SubSeq(text, a, a + Len(stdout)) = <<"\n">> \o stdout

\* C25: every bash action runs exactly one script, the fence-stripped model
\* response; its record holds the raw response as an Assistant item directly
\* followed by a System item with the stdout, the stderr and the exit status
\* of the script; the action returns Continue whatever the exit code.
C25_BashRunsOneScript ==
    /\ [](\A k \in 0..(Len(history.actions) - 1) :
            BashRequestAt(k) # 0 =>
              LET m == history.actions[k + 1].messages
                  x == BashRequestAt(k)
              IN  /\ Cardinality(OpsOf(k, "run_script")) = 1
                  /\ m[x + 1].role = "Assistant"
                  /\ container_log[CHOOSE i \in OpsOf(k, "run_script") : TRUE].content
                        = Unfenced(m[x + 1].text)
                  /\ m[x + 2].role = "System"
                  /\ \E o \in [stdout : {<<>>, <<"hi", "\n">>}, stderr : {<<>>, <<"not found">>},
                                exit_code : {0, 1}] :
                        CarriesOutput(m[x + 2].text, o.stdout, o.stderr, o.exit_code)
                  /\ m[x + 3] = System(DISCUSS_BASH))
    /\ [][(pc = "bash_code" /\ panic' = "none")
            => /\ pc' = "followup"
               /\ outcome' = NoOutcome
               /\ Len(container_log') = Len(container_log) + 1
               /\ LastItem(container_log').op = "run_script"
               /\ LastItem(container_log').content = Unfenced(completion')
               /\ p'[Len(p) + 1] = Assistant(completion')
               /\ p'[Len(p) + 2].role = "System"]_vars

C25_Witness ==
    /\ pc = "loop"
    /\ Len(history.actions) >= 1
    /\ BashRequestAt(0) # 0
    /\ LET m == history.actions[1].messages
       IN  /\ m[BashRequestAt(0) + 1].text = <<BT, BT, BT, "bash", "\n", "ls", "\n", BT, BT, BT>>
           /\ CarriesOutput(m[BashRequestAt(0) + 2].text, <<>>, <<"not found">>, 1)
    /\ container_log[1].content = <<"ls", "\n">>

\* s is a prefix of t
IsPrefix(s, t) == Len(s) <= Len(t) /\ SubSeq(t, 1, Len(s)) = s

\* C26: within one single_action invocation the LLM calls are issued one at a
\* time, each only in the step that consumes the response of the previous
\* one, and the prompt only grows: the prompt of each call strictly extends
\* the prompt of the previous call of the invocation, the prompt of a call is
\* the whole working prompt p (plus the summarize request for the last call),
\* and p itself never loses or reorders an item while the action is running.
C26_PromptOnlyGrows ==
    [][/\ llm_calls' \in {llm_calls, llm_calls + 1}
       /\ llm_calls' # llm_calls =>
             /\ pc \in AwaitingLLM \cup {"loop"}
             /\ pc' \in AwaitingLLM
             /\ IsPrefix(p', last_prompt')
             /\ last_prompt' = IF pc' = "summarize"
                               THEN Append(p', System(SummarizeMsg(action_number)))
                               ELSE p'
             /\ pc # "loop" =>
                   /\ IsPrefix(last_prompt, last_prompt')
                   /\ Len(last_prompt') > Len(last_prompt)
                   /\ IsPrefix(p, p')
                   /\ completion' # completion \/ TRUE
       /\ (pc # "loop" /\ pc' # "loop") => IsPrefix(p, p')
       /\ llm_calls' = llm_calls => last_prompt' = last_prompt]_vars

C26_Witness ==
    /\ pc = "summarize"
    /\ action_number = 1
    /\ llm_calls >= 8
    /\ Len(last_prompt) = Len(p) + 1
    /\ \E i \in 1..Len(p) : p[i] = System(ACTION_EDIT_REPLACE)

\* C27: the history changes only in the step that ends an action with
\* Continue, by one append of the action with the summary just obtained, and
\* every such step appends exactly one action; while an action is running,
\* after it ended the task and after it aborted fatally, the history holds
\* exactly the actions it held when the action started.
C27_HistoryCommittedOnce ==
    /\ [](pc # "loop" => Len(history.actions) = action_number)
    /\ [][/\ history' # history =>
               /\ pc = "summarize" /\ pc' = "loop"
               /\ llm_calls' = llm_calls
               /\ history'.prefix = history.prefix
               /\ Len(history'.actions) = Len(history.actions) + 1
               /\ SubSeq(history'.actions, 1, Len(history.actions)) = history.actions
               /\ LastItem(history'.actions).summary = completion'
          /\ (pc = "summarize" /\ pc' = "loop") =>
               Len(history'.actions) = Len(history.actions) + 1
          /\ pc' \in {"aborted", "done"} => history' = history]_vars

C27_Witness ==
    /\ pc = "aborted"
    /\ panic = "container"
    /\ action_number = 1
    /\ Len(history.actions) = 1
    /\ Len(p) > start_idx + 4

\* item is a BEGIN ACTION or END ACTION marker
IsMarker(item) ==
    /\ item.role = "System"
    /\ Len(item.text) > 0
    /\ item.text[1] \in {"BEGIN ACTION ", "END ACTION "}

\* C28: the messages of every recorded action i start with System
\* "BEGIN ACTION i" and end with System "END ACTION i", where i is the
\* action's number and its position in the history; between the two there is
\* no other marker (so no item of an earlier action's frame), and nowhere a
\* prefix item, a summary item or the summarize request.  At the commit the
\* messages are the items of the working prompt after start_idx, and the
\* items up to start_idx are still the compressed prompt of the old history.
C28_ActionFrame ==
    /\ [](\A k \in 1..Len(history.actions) :
             LET a == history.actions[k]
                 m == a.messages
             IN  /\ a.number = k - 1
                 /\ Len(m) >= 2
                 /\ m[1] = System(<<"BEGIN ACTION ", ToString(k - 1)>>)
                 /\ m[Len(m)] = System(<<"END ACTION ", ToString(k - 1)>>)
                 /\ \A i \in 2..(Len(m) - 1) : ~IsMarker(m[i])
                 /\ \A i \in 1..Len(m) :
                       /\ \A j \in 1..Len(history.prefix) : m[i] # history.prefix[j]
                       /\ ~IsSummaryItem(m[i])
                       /\ m[i] # System(<<"Summarize what you have done in action ",
                                          ToString(k - 1), ".">>))
    /\ [][history' # history =>
             /\ LastItem(history'.actions).messages = SubSeq(p, start_idx + 1, Len(p))
             /\ SubSeq(p, 1, start_idx) = compressed_prompt(history)
             /\ LastItem(history'.actions).number = action_number]_vars

C28_Witness ==
    /\ pc = "loop"
    /\ Len(history.actions) >= 5
    /\ NumSummaryItems(p) > 0
    /\ LastItem(history.actions).messages = SubSeq(p, start_idx + 1, Len(p))
    /\ Len(history.prefix) = 3

\* C29: the first LLM call of an action asks DISCUSS_FIRST when the history
\* is empty and DISCUSS_ACTION when it is not; a call that asks DISCUSS_FIRST
\* is the first call of the run, made with an empty history; and the
\* DISCUSS_FIRST item is found in the working prompt and in the recorded
\* actions only for action 0.
C29_FirstPlanOnlyOnce ==
    /\ [](\A i \in (start_idx + 1)..Len(p) :
             p[i] = System(DISCUSS_FIRST) => action_number = 0 /\ i = start_idx + 2)
    /\ [](\A k \in 1..Len(history.actions) :
             (\E i \in 1..Len(history.actions[k].messages) :
                 history.actions[k].messages[i] = System(DISCUSS_FIRST)) <=> k = 1)
    /\ [][/\ (llm_calls' # llm_calls /\ LastItem(last_prompt') = System(DISCUSS_FIRST)) =>
               /\ llm_calls = 0
               /\ pc = "loop"
               /\ Len(history.actions) = 0
               /\ last_model' = SMART_MODEL
          /\ (pc = "loop" /\ pc' # "loop") =>
               /\ llm_calls' = llm_calls + 1
               /\ Len(last_prompt') = start_idx' + 2
               /\ LastItem(last_prompt') =
                     IF Len(history.actions) = 0 THEN System(DISCUSS_FIRST)
                                                 ELSE System(DISCUSS_ACTION)
          /\ (llm_calls = 0 /\ llm_calls' = 1) =>
               LastItem(last_prompt') = System(DISCUSS_FIRST)]_vars

C29_Witness ==
    /\ pc = "discuss_action"
    /\ action_number = 1
    /\ Len(history.actions) = 1
    /\ Len(last_prompt) = start_idx + 2
    /\ LastItem(last_prompt) = System(DISCUSS_ACTION)
    /\ history.actions[1].messages[2] = System(DISCUSS_FIRST)

\* C30: the history prefix is System INTRO_1, User task description, System
\* INTRO_2, in this order; no step changes it; and every prompt sent to the
\* LLM is longer than three items and starts with these three items, also
\* when summary items follow them.
C30_PrefixFixed ==
    /\ [](\E d \in TaskDescriptions :
             /\ Len(history.prefix) = 3
             /\ history.prefix[1] = [role |-> "System", text |-> INTRO_1]
             /\ history.prefix[2] = [role |-> "User", text |-> d]
             /\ history.prefix[3] = [role |-> "System", text |-> INTRO_2])
    /\ [](llm_calls > 0 =>
             /\ Len(last_prompt) > 3
             /\ \A i \in 1..3 : last_prompt[i] = history.prefix[i]
             /\ \A i \in 4..Len(last_prompt) :
                   last_prompt[i] \notin {history.prefix[1], history.prefix[3]})
    /\ [][history'.prefix = history.prefix]_vars

C30_Witness ==
    /\ llm_script = "bash"
    /\ pc = "bash_code"
    /\ action_number = 6
    /\ IsSummaryItem(last_prompt[4])
    /\ last_prompt[1] = System(INTRO_1)
    /\ last_prompt[2] = User(<<"task">>)
    /\ last_prompt[3] = System(INTRO_2)

\* C31: run has no action budget.  It leaves the loop only from a step of
\* action_end_task that produced an outcome, or by a panic; an action that
\* returns Continue always leads back to the head of the loop with one more
\* recorded action, and at the head of the loop the next action can always
\* be started, however many actions are recorded.  When the LLM keeps
\* choosing bash and nothing fails (no panic in main before run, none in
\* run), the number of recorded actions reaches
\* the number of actions the LLM is scripted to ask for, whatever it is.
C31_NoActionBudget ==
    /\ [](pc = "loop" => ENABLED BeginAction)
    /\ [](pc = "done" => outcome # NoOutcome)
    /\ [](pc = "aborted" => panic # "none")
    /\ [][/\ (pc' = "done" /\ pc # "done") => pc \in EndTaskPcs
          /\ (pc = "summarize" /\ panic' = "none" /\ pc' # pc) =>
               /\ pc' = "loop"
               /\ Len(history'.actions) = Len(history.actions) + 1
          /\ (pc = "loop" /\ pc' # "loop") =>
               /\ pc' \in {"discuss_first", "discuss_action"}
               /\ action_number' = Len(history.actions)]_vars
    /\ (llm_script = "bash") =>
           <>(\/ pc = "aborted"
              \/ main_pc = "panicked"
              \/ pc = "loop" /\ Len(history.actions) = MaxBashActions)

C31_Witness ==
    /\ llm_script = "bash"
    /\ pc = "loop"
    /\ panic = "none"
    /\ Len(history.actions) = MaxBashActions
    /\ ENABLED BeginAction

\* the entries carried by the chunks of a stream, in order
RECURSIVE EntriesOf(_)
EntriesOf(stream) ==
    IF stream = <<>> THEN <<>>
    ELSE (IF stream[1].kind = "chunk" THEN stream[1].entries ELSE <<>>)
            \o EntriesOf(Tail(stream))

\* C32: when read_file has returned, its result is: NotFound if the stream
\* failed with a server error of status 404; Other with the error's message
\* if it failed in any other way; and if the stream ended normally, Other
\* with a message if the archive, its first entry or the entry's UTF-8
\* decoding failed, NotFound if the archive has no entry, and otherwise Ok
\* with the content of the first entry.
C32_ReadFileOutcomes ==
    rd.pc = "done" =>
      LET failures == {i \in 1..Len(rd.stream) : rd.stream[i].kind # "chunk"}
          entries == EntriesOf(rd.stream)
      IN  IF failures # {}
          THEN LET e == rd.stream[SetMin(failures)]
               IN  IF e.kind = "server" /\ e.status = 404
                   THEN rd.result = [kind |-> "NotFound", text |-> <<>>]
                   ELSE /\ rd.result.kind = "Other"
                        /\ rd.result.text = e.msg
                        /\ e.msg # <<>>
          ELSE IF ~rd.entries_ok \/ (entries # <<>> /\ (entries[1].kind = "corrupt" \/ ~entries[1].utf8))
               THEN rd.result.kind = "Other" /\ rd.result.text # <<>>
               ELSE IF entries = <<>>
                    THEN rd.result = [kind |-> "NotFound", text |-> <<>>]
                    ELSE rd.result = [kind |-> "Ok", text |-> entries[1].text]

C32_Witness ==
    /\ rd.pc = "done"
    /\ Len(rd.stream) = 2
    /\ rd.stream[1].kind = "chunk" /\ rd.stream[1].entries = <<>>
    /\ rd.stream[2].kind = "server" /\ rd.stream[2].status = 500
    /\ rd.result.kind = "Other"

\* C33: main obtains the handle of a created and started container before
\* run is entered: while run is in progress, and whenever an LLM call or a
\* container operation has been made, the container is running and main
\* holds its handle.  The handle is obtained only before run was entered and
\* is given up only when main returns after run has returned an outcome and
\* the outcome was handled, for Complete and for Failure alike.  (Giving up
\* the handle is all that happens: the Docker container stays as it is.)
C33_ContainerAroundLoop ==
    /\ [](main_pc = "run" => ct = [docker |-> "running", handle |-> "held"])
    /\ []((pc # "main" \/ llm_calls > 0 \/ Len(container_log) > 0) =>
             ct.docker = "running" /\ ct.handle # "none")
    /\ [](main_pc = "exit" =>
             /\ ct.handle = "dropped"
             /\ pc = "done"
             /\ outcome.kind \in {"Complete", "Failure"})
    /\ [][/\ (ct.handle # "held" /\ ct'.handle = "held") =>
               /\ pc = "main" /\ llm_calls = 0 /\ container_log = <<>>
               /\ ct'.docker = "running"
          /\ (ct.handle = "held" /\ ct'.handle # "held") =>
               /\ ct'.handle = "dropped"
               /\ pc = "done" /\ pc' = "done"
               /\ main_pc \in {"complete_task", "fail_task"} /\ main_pc' = "exit"
          /\ ct.handle = "dropped" => ct' = ct]_vars

C33_Witness ==
    /\ main_pc = "exit"
    /\ outcome.kind = "Failure"
    /\ ct.handle = "dropped"
    /\ llm_calls > 0
    /\ Len(container_log) > 0
    /\ LastItem(main_log).op = "fail_task"

\* the completed calls of main named op
MainCalls(op) == {i \in 1..Len(main_log) : main_log[i].op = op}

\* C34: main reaches the call of complete_task (and the commit and push
\* before it) or of fail_task only after run has returned an outcome, the
\* first for Complete and the second for Failure; after the call main
\* returns or panics, so that no second call and no call of the other kind
\* follows, and at most one report is ever completed.  When run has
\* panicked, main is still where it called run, and no commit, push or
\* report has been made or will be.
C34_OneReportAfterRun ==
    /\ [](Cardinality(MainCalls("complete_task") \cup MainCalls("fail_task")) <= 1)
    /\ [](main_pc \in {"commit_and_push", "complete_task"} =>
             pc = "done" /\ outcome.kind = "Complete" /\ MainCalls("fail_task") = {})
    /\ [](main_pc = "fail_task" =>
             pc = "done" /\ outcome.kind = "Failure" /\ main_log = <<>>)
    /\ [](main_log # <<>> => pc = "done" /\ outcome # NoOutcome)
    /\ [](pc = "aborted" => main_pc = "run" /\ main_log = <<>> /\ panic # "none")
    /\ [][/\ main_pc \in {"complete_task", "fail_task"} => main_pc' \in {main_pc, "exit", "panicked"}
          /\ main_pc \in {"exit", "panicked"} => main_pc' = main_pc /\ main_log' = main_log
          /\ main_pc = "commit_and_push" =>
               main_pc' \in {main_pc, "complete_task", "panicked"}
          /\ pc = "aborted" => pc' = "aborted" /\ main_pc' = main_pc /\ main_log' = main_log
          /\ Len(main_log') > Len(main_log) =>
               main_pc \in {"commit_and_push", "complete_task", "fail_task"}]_vars

C34_Witness ==
    /\ pc = "aborted"
    /\ panic = "unexpected_action"
    /\ action_number = 1
    /\ main_pc = "run"
    /\ main_log = <<>>
    /\ ct.handle = "held"

\* the numbers of the actions that items renders as a summary item
SummarizedIn(items) ==
    {k \in 0..action_number :
        \E x \in 1..Len(items) :
            /\ IsSummaryItem(items[x])
            /\ Len(items[x].text) >= 2
            /\ items[x].text[2] = ToString(k)}

\* the numbers of the actions whose messages items holds in full
FullIn(items) ==
    {k \in 0..action_number :
        \E x \in 1..Len(items) : items[x] = System(<<"BEGIN ACTION ", ToString(k)>>)}

\* C35: from the compressed prompt one action of a run starts with to the
\* compressed prompt the next action starts with, every action rendered as
\* a summary item stays rendered as a summary item and is not rendered in
\* full, and the number of summary items stays the same or grows by one;
\* in every compressed prompt the summarized actions are the oldest ones
\* and no action is both summarized and rendered in full (looked at when
\* the action makes its first LLM call; the prompt's head is fixed from then).
C35_CompressionGradual ==
    /\ [](pc \in {"discuss_first", "discuss_action"} =>
             LET summarized == SummarizedIn(StartPrompt)
                 full == FullIn(StartPrompt)
             IN  /\ summarized \cap full = {}
                 /\ summarized = 0..(NumSummaryItems(StartPrompt) - 1)
                 /\ summarized \cup full = 0..(action_number - 1))
    /\ [][(pc = "loop" /\ pc' # "loop" /\ Len(p) > 0) =>
             LET old == SubSeq(p, 1, start_idx)
                 new == SubSeq(p', 1, start_idx')
                 was == SummarizedIn(old)
             IN  /\ action_number' = action_number + 1
                 /\ \A k \in was :
                       /\ \E x \in 1..Len(new) :
                             IsSummaryItem(new[x]) /\ new[x].text[2] = ToString(k)
                       /\ \A x \in 1..Len(new) :
                             new[x] # System(<<"BEGIN ACTION ", ToString(k)>>)
                 /\ NumSummaryItems(new) \in
                       {NumSummaryItems(old), NumSummaryItems(old) + 1}]_vars

C35_Witness ==
    /\ llm_script = "bash"
    /\ action_number = 7
    /\ pc = "discuss_action"
    /\ SummarizedIn(StartPrompt) = {0, 1}
    /\ FullIn(StartPrompt) = {2, 3, 4, 5, 6}

====
